---- MODULE Spec2Model ----
(***************************************************************************)
(* Ceradon Node Architect: the estimator (estimator.py) and the            *)
(* MissionProject schema translator (mission_project.py).                  *)
(*                                                                         *)
(* Numbers are fixed point.  Powers are in centiwatts (0.01 W), battery    *)
(* capacity in 0.01 Wh, runtimes in centihours (0.01 h), ranges in metres  *)
(* (0.001 km), multipliers in tenths, battery capacity factors in          *)
(* hundredths, estimated_runtime_min in tenths of a minute.  Python's      *)
(* round(x, n) is modelled on the exact rational value, ties to even.      *)
(*                                                                         *)
(* A Python dict is a function from the keys it holds to their values, so  *)
(* "key in d" is  k \in DOMAIN d ; JSON null is the record Null.           *)
(***************************************************************************)
EXTENDS Integers, Sequences, FiniteSets, TLC

VARIABLES
    pc,         \* position of the run: which call has returned
    build,      \* the NodeBuild handed to estimate_node
    estimate,   \* the EstimateResult estimate_node returned
    request,    \* the arguments of assemble_project / assemble_node_bundle
    project,    \* a MissionProject document
    original,   \* the document as it was before upgrade_project_schema
    imported,   \* what project_to_builds returned (or that it raised)
    geojson,    \* the FeatureCollection to_geojson returned
    cot,        \* the events to_cot_stub returned
    constructed, \* the Radio the dataclass constructor returned
    heap        \* the objects of the interpreter, by address

vars == <<pc, build, estimate, request, project, original, imported, geojson, cot, constructed, heap>>

None == [none |-> TRUE]
Null == [null |-> TRUE]
EmptyDict == <<>>

(***************************************************************************)
(* Generic helpers                                                         *)
(***************************************************************************)

\* round() of the non-negative rational n/d to an integer, ties to even
RoundHalfEven(n, d) ==
    LET q == n \div d
        r == n % d
    IN  IF 2 * r < d THEN q
        ELSE IF 2 * r > d THEN q + 1
        ELSE IF q % 2 = 0 THEN q ELSE q + 1

\* str.lower() on the strings the model uses
Lower(s) ==
    CASE s = "WiFi" -> "wifi"
      [] s = "Cellular" -> "cellular"
      [] s = "Camera" -> "camera"
      [] s = "2.4GHz" -> "2.4ghz"
      [] s = "5GHz" -> "5ghz"
      [] s = "915MHz" -> "915mhz"
      [] s = "LTE" -> "lte"
      [] OTHER -> s

\* dict.get(k, default)
Get(d, k, default) == IF k \in DOMAIN d THEN d[k] ELSE default

\* d[k] = v
Put(d, k, v) == (k :> v) @@ d

\* d.setdefault(k, v)
SetDefault(d, k, v) == IF k \in DOMAIN d THEN d ELSE d @@ (k :> v)

\* all the sequences over S of length at most n
SeqsUpTo(S, n) == UNION {[1..k -> S] : k \in 0..n}

RECURSIVE SumPower(_)
SumPower(sensors) ==
    IF sensors = <<>> THEN 0
    ELSE Head(sensors).power_w + SumPower(Tail(sensors))

(***************************************************************************)
(* estimator.py                                                            *)
(***************************************************************************)

Inf == -1

\* ENVIRONMENT_MULTIPLIERS.get(environment, 1.0), in tenths
EnvironmentMultiplier(environment) ==
    CASE environment = "lab" -> 8
      [] environment = "urban_indoor" -> 3
      [] environment = "urban_outdoor" -> 6
      [] environment = "rural_open" -> 10
      [] environment = "subterranean" -> 2
      [] OTHER -> 10

\* twice the host draw, in centiwatts
AverageHostPower2(host) ==
    IF host.power_w_idle # 0 /\ host.power_w_load # 0
    THEN host.power_w_idle + host.power_w_load
    ELSE 2 * host.power_w

\* twice the radio draw, in centiwatts
AverageRadioPower2(radio) ==
    IF radio.power_w_tx # 0 /\ radio.power_w_rx # 0
    THEN radio.power_w_tx + radio.power_w_rx
    ELSE 2 * radio.power_w

\* round((host_draw + radio_draw + sensor_draw) * environment_factor, 2)
EstimatePower(host, radio, sensors, envFactor) ==
    RoundHalfEven(
        (AverageHostPower2(host) + AverageRadioPower2(radio) + 2 * SumPower(sensors))
            * envFactor,
        20)

\* estimate_runtime_hours with the quotient truncated instead of rounded
EstimateRuntimeHoursTruncated(battery, load_w) ==
    IF load_w <= 0 THEN Inf
    ELSE (battery.capacity_wh * 100) \div load_w

\* estimate_runtime_hours, in centihours; Inf is float("inf")
EstimateRuntimeHours(battery, load_w) ==
    IF load_w <= 0 THEN Inf
    ELSE RoundHalfEven(battery.capacity_wh * 100, load_w)

\* the buckets with their upper edges exclusive
AntennaGainKmModifierExclusive(antenna, radio) ==
    LET g0 == antenna.gain_dbi + radio.antenna_gain_db
        gain == IF antenna.pattern \notin {"omni", "whip"} THEN g0 + 2 ELSE g0
    IN  IF gain < 2 THEN 10
        ELSE IF gain < 5 THEN 12
        ELSE IF gain < 9 THEN 15
        ELSE IF gain < 14 THEN 25
        ELSE 35

\* the bucketed gain multiplier, in tenths
AntennaGainKmModifier(antenna, radio) ==
    LET g0 == antenna.gain_dbi + radio.antenna_gain_db
        gain == IF antenna.pattern \notin {"omni", "whip"} THEN g0 + 2 ELSE g0
    IN  IF gain <= 2 THEN 10
        ELSE IF gain <= 5 THEN 12
        ELSE IF gain <= 9 THEN 15
        ELSE IF gain <= 14 THEN 25
        ELSE 35

PrimaryBand(radio) ==
    IF radio.bands # <<>> THEN Lower(radio.bands[1]) ELSE Lower(radio.band)

\* "2.4" in band
Has24(band) == band \in {"2.4ghz", "2.4ghz/5ghz"}

\* an Optional[float] that is a number
Some(n) == [none |-> FALSE, v |-> n]

\* the one product of a baseline and a multiplier (in hundredths) that is a tie of
\* round(., 3) as a decimal and lies below the tie as a float:
\* 0.15 * (1.5 * 0.3) is 0.06749999999999999
FloatBelowTie(baseline, multiplier) == baseline = 150 /\ multiplier = 45

\* round(baseline * multiplier, 3), in metres
RangeFrom(baseline, radio, antenna, environment) ==
    LET multiplier ==
            AntennaGainKmModifier(antenna, radio) * EnvironmentMultiplier(environment)
    IN  IF FloatBelowTie(baseline, multiplier)
        THEN Some((baseline * multiplier) \div 100)
        ELSE Some(RoundHalfEven(baseline * multiplier, 100))

\* estimate_range_km with the cellular branch missing: cellular takes the default baseline
EstimateRangeKmNoCellular(radio, antenna, environment) ==
    LET radio_type == Lower(radio.radio_type)
    IN  CASE radio_type = "wifi" ->
                 IF Has24(PrimaryBand(radio))
                 THEN RangeFrom(150, radio, antenna, environment)
                 ELSE RangeFrom(80, radio, antenna, environment)
          [] radio_type = "lora" -> RangeFrom(2000, radio, antenna, environment)
          [] radio_type = "analog_fpv" -> RangeFrom(1000, radio, antenna, environment)
          [] radio_type = "sdr" -> RangeFrom(500, radio, antenna, environment)
          [] OTHER -> RangeFrom(300, radio, antenna, environment)

\* estimate_range_km: the range_km it returns (None for a cellular radio)
EstimateRangeKm(radio, antenna, environment) ==
    LET radio_type == Lower(radio.radio_type)
    IN  CASE radio_type = "wifi" ->
                 IF Has24(PrimaryBand(radio))
                 THEN RangeFrom(150, radio, antenna, environment)
                 ELSE RangeFrom(80, radio, antenna, environment)
          [] radio_type = "lora" -> RangeFrom(2000, radio, antenna, environment)
          [] radio_type = "analog_fpv" -> RangeFrom(1000, radio, antenna, environment)
          [] radio_type = "sdr" -> RangeFrom(500, radio, antenna, environment)
          [] radio_type = "cellular" -> None
          [] OTHER -> RangeFrom(300, radio, antenna, environment)

\* [sensor.sensor_type.lower() for sensor in sensors], as a set
SensorTypes(sensors) == {Lower(sensors[i].sensor_type) : i \in DOMAIN sensors}

\* the capability of one sensor type, none for a type without one
SensorCapability(sensor_type) ==
    CASE sensor_type = "camera" -> <<"Video capture">>
      [] sensor_type = "gps" -> <<"GPS time/position reference">>
      [] sensor_type = "imu" -> <<"IMU / motion sensing">>
      [] sensor_type \in {"environment", "environmental"} ->
             <<"Environmental sensing (temp/humidity)">>
      [] OTHER -> <<>>

\* the sensor capabilities appended sensor by sensor, in the order of the build
RECURSIVE SensedCapabilitiesPerSensor(_)
SensedCapabilitiesPerSensor(sensors) ==
    IF sensors = <<>> THEN <<>>
    ELSE SensorCapability(Lower(Head(sensors).sensor_type))
             \o SensedCapabilitiesPerSensor(Tail(sensors))

\* the four tests on sensor_types of derive_capabilities, in their order
SensedCapabilities(sensors) ==
    LET types == SensorTypes(sensors)
    IN  (IF "camera" \in types THEN <<"Video capture">> ELSE <<>>)
        \o (IF "gps" \in types THEN <<"GPS time/position reference">> ELSE <<>>)
        \o (IF "imu" \in types THEN <<"IMU / motion sensing">> ELSE <<>>)
        \o (IF "environment" \in types \/ "environmental" \in types
            THEN <<"Environmental sensing (temp/humidity)">> ELSE <<>>)

\* derive_capabilities: <<capabilities, notes>>
DeriveCapabilities(host, radio, sensors) ==
    LET radio_type == Lower(radio.radio_type)
        base ==
            CASE radio_type = "wifi" ->
                     (IF radio.supports_monitor
                      THEN <<"WiFi recon / monitor mode scanning">>
                      ELSE <<"WiFi client/backhaul">>)
                     \o (IF radio.supports_csi
                         THEN <<"Potential WiFi CSI / channel analysis (driver support required)">>
                         ELSE <<>>)
              [] radio_type = "lora" -> <<"LoRa telemetry / low-rate sensor network">>
              [] radio_type = "analog_fpv" -> <<"Analog FPV video link">>
              [] radio_type = "sdr" -> <<"SDR-based RF capture / analysis">>
              [] radio_type = "cellular" -> <<"Cellular backhaul for remote deployment">>
              [] OTHER -> <<radio.radio_type \o " link">>
        sensed == SensedCapabilities(sensors)
        csiNotes ==
            IF host.cpu_score >= 8 /\ radio.supports_csi
            THEN <<"Host strong enough for CSI pose models like WiPose">>
            ELSE IF radio.supports_csi
            THEN <<"CSI available; keep models lightweight (Jetson/RPi)">>
            ELSE <<>>
        cellNotes ==
            IF radio_type = "cellular"
            THEN <<"Assumes LTE/5G coverage for backhaul">> ELSE <<>>
    IN  <<base \o sensed, csiNotes \o cellNotes>>

\* runtime_hours >= h, > h, < h for a runtime that may be Inf (h in centihours)
RuntimeGeq(runtime_hours, h) == runtime_hours = Inf \/ runtime_hours >= h
RuntimeGt(runtime_hours, h) == runtime_hours = Inf \/ runtime_hours > h
RuntimeLt(runtime_hours, h) == runtime_hours # Inf /\ runtime_hours < h

\* recommended_role with the monitor rule tried before the CSI rule
RecommendedRoleMonitorFirst(capabilities, runtime_hours, radio, host, sensors) ==
    LET radio_type == Lower(radio.radio_type)
        has_camera == "camera" \in SensorTypes(sensors)
        has_wifi_monitor == radio_type = "wifi" /\ radio.supports_monitor
        has_wifi_csi == radio_type = "wifi" /\ radio.supports_csi
        has_decent_cpu == host.cpu_score >= 6
        has_high_cpu == host.cpu_score >= 8
    IN  IF has_wifi_monitor /\ has_decent_cpu /\ RuntimeGeq(runtime_hours, 200)
        THEN "Recon / RF mapping node"
        ELSE IF has_wifi_csi /\ has_high_cpu /\ RuntimeGeq(runtime_hours, 200)
        THEN "Experimental WiFi CSI / channel analysis node"
        ELSE IF radio_type = "lora" /\ RuntimeGeq(runtime_hours, 1200)
        THEN "Low-power perimeter/telemetry node"
        ELSE IF radio_type = "analog_fpv" /\ has_camera
        THEN "FPV video relay / payload node"
        ELSE IF radio_type = "sdr" /\ has_decent_cpu
        THEN "RF capture / lab or field survey node"
        ELSE IF radio_type = "cellular"
        THEN "Backhaul via LTE/5G; pair with WiFi/USB tether for clients"
        ELSE IF RuntimeGt(runtime_hours, 1200) THEN "Endurance ISR node"
        ELSE IF RuntimeLt(runtime_hours, 400) THEN "Burst recon / short-mission scout"
        ELSE "Balanced multi-role field node"

RecommendedRole(capabilities, runtime_hours, radio, host, sensors) ==
    LET radio_type == Lower(radio.radio_type)
        has_camera == "camera" \in SensorTypes(sensors)
        has_wifi_monitor == radio_type = "wifi" /\ radio.supports_monitor
        has_wifi_csi == radio_type = "wifi" /\ radio.supports_csi
        has_decent_cpu == host.cpu_score >= 6
        has_high_cpu == host.cpu_score >= 8
    IN  IF has_wifi_csi /\ has_high_cpu /\ RuntimeGeq(runtime_hours, 200)
        THEN "Experimental WiFi CSI / channel analysis node"
        ELSE IF has_wifi_monitor /\ has_decent_cpu /\ RuntimeGeq(runtime_hours, 200)
        THEN "Recon / RF mapping node"
        ELSE IF radio_type = "lora" /\ RuntimeGeq(runtime_hours, 1200)
        THEN "Low-power perimeter/telemetry node"
        ELSE IF radio_type = "analog_fpv" /\ has_camera
        THEN "FPV video relay / payload node"
        ELSE IF radio_type = "sdr" /\ has_decent_cpu
        THEN "RF capture / lab or field survey node"
        ELSE IF radio_type = "cellular"
        THEN "Backhaul via LTE/5G; pair with WiFi/USB tether for clients"
        ELSE IF RuntimeGt(runtime_hours, 1200) THEN "Endurance ISR node"
        ELSE IF RuntimeLt(runtime_hours, 400) THEN "Burst recon / short-mission scout"
        ELSE "Balanced multi-role field node"

EstimateNode(b) ==
    LET env_factor == EnvironmentMultiplier(b.environment)
        total_power == EstimatePower(b.host, b.radio, b.sensors, env_factor)
        runtime_hours == EstimateRuntimeHours(b.battery, total_power)
        caps == DeriveCapabilities(b.host, b.radio, b.sensors)
    IN  [ total_power_w |-> total_power,
          runtime_hours |-> runtime_hours,
          range_km |-> EstimateRangeKm(b.radio, b.antenna, b.environment),
          capabilities |-> caps[1],
          recommended_role |->
              RecommendedRole(caps[1], runtime_hours, b.radio, b.host, b.sensors),
          notes |-> caps[2] ]

(***************************************************************************)
(* The estimator run: a NodeBuild is drawn, estimate_node is applied       *)
(***************************************************************************)

MaxEstSensors == 1

NoValue == [unset |-> TRUE]

CpuScores == 5..9

\* <<power_w_idle, power_w_load, power_w>> of a host, <<tx, rx, power_w>> of a radio
HostPowers == {<<500, 1500, 1000>>, <<0, 0, 0>>}
RadioPowers == {<<200, 100, 150>>, <<0, 0, 0>>}

RadioTypes ==
    {"wifi", "WiFi", "lora", "analog_fpv", "sdr", "cellular", "Cellular", "zigbee"}

EstHosts ==
    { [ id |-> "host", name |-> "host", cpu_score |-> c,
        power_w_idle |-> p[1], power_w_load |-> p[2], power_w |-> p[3] ] :
      c \in CpuScores, p \in HostPowers }

EstRadios ==
    { [ id |-> "radio", name |-> "radio", radio_type |-> t,
        band |-> b, bands |-> <<b>>, antenna_gain_db |-> 0,
        supports_csi |-> csi, supports_monitor |-> mon,
        power_w_tx |-> p[1], power_w_rx |-> p[2], power_w |-> p[3] ] :
      t \in RadioTypes, b \in {"2.4GHz", "5GHz"},
      csi \in BOOLEAN, mon \in BOOLEAN, p \in RadioPowers }

EstAntennas ==
    { [id |-> "antenna", name |-> "antenna", gain_dbi |-> 1, pattern |-> "omni"],
      [id |-> "antenna", name |-> "antenna", gain_dbi |-> 4, pattern |-> "yagi"],
      [id |-> "antenna", name |-> "antenna", gain_dbi |-> 13, pattern |-> "whip"] }

EstBatteries ==
    { [id |-> "battery", name |-> "battery", capacity_wh |-> c] :
      c \in {0, 1, 2000, 4000, 12000} }

EstSensors ==
    { [id |-> "cam", name |-> "cam", sensor_type |-> "Camera", power_w |-> 100],
      [id |-> "gps", name |-> "gps", sensor_type |-> "gps", power_w |-> 0] }

Environments == {"rural_open", "urban_indoor", "lab", "desert"}

InitEst ==
    /\ pc = "built"
    /\ build \in
         [ host : EstHosts, radio : EstRadios, antenna : EstAntennas,
           battery : EstBatteries, sensors : SeqsUpTo(EstSensors, MaxEstSensors),
           environment : Environments ]
    /\ estimate = NoValue
    /\ request = NoValue
    /\ project = NoValue
    /\ original = NoValue
    /\ imported = NoValue
    /\ geojson = NoValue
    /\ cot = NoValue
    /\ constructed = NoValue
    /\ heap = NoValue

\* estimate_node(build)
Estimate ==
    /\ pc = "built"
    /\ estimate' = EstimateNode(build)
    /\ pc' = "estimated"
    /\ UNCHANGED <<build, request, project, original, imported, geojson, cot, constructed, heap>>

NextEst == Estimate

SpecEst == InitEst /\ [][NextEst]_vars

(***************************************************************************)
(* Claims about the estimator                                              *)
(***************************************************************************)

Estimated == pc = "estimated"

\* the radio type as the estimator reads it (radio.radio_type.lower())
BuildRadioType == Lower(build.radio.radio_type)
BuildHasCamera ==
    \E i \in DOMAIN build.sensors : Lower(build.sensors[i].sensor_type) = "camera"

\* the seven rules of the role table, in precedence order, as <<condition, role>>
RoleRules ==
    LET rt == estimate.runtime_hours
        cpu == build.host.cpu_score
        atLeast(h) == rt = Inf \/ rt >= h
    IN  << << BuildRadioType = "wifi" /\ build.radio.supports_csi /\ cpu >= 8 /\ atLeast(200),
              {"Experimental WiFi CSI / channel analysis node"} >>,
           << BuildRadioType = "wifi" /\ build.radio.supports_monitor /\ cpu >= 6 /\ atLeast(200),
              {"Recon / RF mapping node"} >>,
           << BuildRadioType = "lora" /\ atLeast(1200),
              {"Low-power perimeter/telemetry node"} >>,
           << BuildRadioType = "analog_fpv" /\ BuildHasCamera,
              {"FPV video relay / payload node"} >>,
           << BuildRadioType = "sdr" /\ cpu >= 6,
              {"RF capture / lab or field survey node"} >>,
           << BuildRadioType = "cellular",
              {"Backhaul via LTE/5G; pair with WiFi/USB tether for clients"} >>,
           << TRUE,
              IF rt = Inf \/ rt > 1200 THEN {"Endurance ISR node"}
              ELSE IF rt < 400 THEN {"Burst recon / short-mission scout"}
              ELSE {"Balanced multi-role field node"} >> >>

\* C6: recommended_role is the role of the first rule of the table that matches
\* (CSI, recon, telemetry, FPV, RF capture, backhaul, then the runtime fallback);
\* for wifi+monitor builds with runtime >= 2 h and cpu_score >= 6 the role is the
\* CSI role exactly when CSI is supported and the score is >= 8, else recon/mapping.
C6_RolePrecedence ==
    Estimated =>
        /\ \A i \in 1..Len(RoleRules) :
               (RoleRules[i][1] /\ \A j \in 1..(i - 1) : ~RoleRules[j][1])
                   => estimate.recommended_role \in RoleRules[i][2]
        /\ ( /\ BuildRadioType = "wifi"
             /\ build.radio.supports_monitor
             /\ build.host.cpu_score >= 6
             /\ (estimate.runtime_hours = Inf \/ estimate.runtime_hours >= 200) )
           => estimate.recommended_role =
                  IF build.radio.supports_csi /\ build.host.cpu_score >= 8
                  THEN "Experimental WiFi CSI / channel analysis node"
                  ELSE "Recon / RF mapping node"

\* a build that matches both the CSI rule and the recon rule, and got the CSI role
C6_Witness ==
    /\ Estimated
    /\ RoleRules[1][1] /\ RoleRules[2][1]
    /\ build.host.cpu_score = 9
    /\ estimate.recommended_role = "Experimental WiFi CSI / channel analysis node"

\* C7: range_km is None exactly for a cellular radio; for every other radio type
\* it is a number >= 0.
C7_RangeNoneIffCellular ==
    Estimated =>
        /\ (estimate.range_km = None) <=> (BuildRadioType = "cellular")
        /\ estimate.range_km # None => estimate.range_km.v >= 0

C7_Witness ==
    /\ Estimated
    /\ build.radio.radio_type = "cellular"
    /\ estimate.range_km = None

\* C8 as stated: with capacity_wh > 0, total power >= 0 and the runtime is
\* strictly positive or infinite, infinite exactly when the total power is <= 0.
C8_RuntimeStrictlyPositive ==
    (Estimated /\ build.battery.capacity_wh > 0) =>
        /\ estimate.total_power_w >= 0
        /\ (estimate.runtime_hours = Inf) <=> (estimate.total_power_w <= 0)
        /\ estimate.runtime_hours = Inf \/ estimate.runtime_hours > 0

\* C8 amended: with capacity_wh > 0, total power >= 0 and the runtime is >= 0 or
\* infinite, infinite exactly when the total power is <= 0; the runtime is 0.00
\* only when capacity_wh / total_power_w is at most 0.005 h, and always when it is
\* less than 0.005 h.
C8_RuntimeNonNegative ==
    (Estimated /\ build.battery.capacity_wh > 0) =>
        /\ estimate.total_power_w >= 0
        /\ (estimate.runtime_hours = Inf) <=> (estimate.total_power_w <= 0)
        /\ estimate.runtime_hours # Inf =>
               /\ estimate.runtime_hours >= 0
               /\ estimate.runtime_hours = 0
                      => 200 * build.battery.capacity_wh <= estimate.total_power_w
               /\ 200 * build.battery.capacity_wh < estimate.total_power_w
                      => estimate.runtime_hours = 0

\* a powered build on a battery with capacity > 0 whose runtime is 0.00 h
C8_Witness ==
    /\ Estimated
    /\ build.battery.capacity_wh > 0
    /\ estimate.total_power_w > 0
    /\ estimate.runtime_hours = 0

(***************************************************************************)
(* mission_project.py: export (build -> document)                          *)
(***************************************************************************)

SCHEMA_VERSION == "2.0.0"
LEGACY_SCHEMA_TAG == "mission_project_v1"

\* a schema_version argument of None (falsy, like "")
NoSchemaVersion == ""

\* BATTERY_CAPACITY_FACTOR.get(altitude_band, {}).get(temperature_band, 1.0),
\* in hundredths
BatteryCapacityFactor(altitude_band, temperature_band) ==
    LET row(hot, temperate, cold, very_cold) ==
            CASE temperature_band = "hot" -> hot
              [] temperature_band = "temperate" -> temperate
              [] temperature_band = "cold" -> cold
              [] temperature_band = "very_cold" -> very_cold
              [] OTHER -> 100
    IN  CASE altitude_band = "sea_level" -> row(100, 100, 95, 90)
          [] altitude_band = "band_1000_2000" -> row(95, 93, 88, 82)
          [] altitude_band = "band_2000_3000" -> row(90, 88, 82, 76)
          [] altitude_band = "above_3000" -> row(85, 82, 75, 70)
          [] OTHER -> 100

\* band.lower().replace("/", "_")
RfBand(band) ==
    LET b == Lower(band)
    IN  IF b = "2.4ghz/5ghz" THEN "2.4ghz_5ghz" ELSE b

DeriveRfBands(radio) ==
    IF radio.bands # <<>> THEN [i \in DOMAIN radio.bands |-> RfBand(radio.bands[i])]
    ELSE IF radio.band # "" THEN <<RfBand(radio.band)>>
    ELSE <<>>

\* _build_platform; the specs block copies descriptive host fields only
BuildPlatform(host) ==
    [ id |-> "platform-" \o host.id,
      name |-> host.name,
      role |-> "compute",
      origin_tool |-> "node",
      specs |-> [power_idle_w |-> host.power_w_idle, power_load_w |-> host.power_w_load] ]

\* round(runtime_hours * cap_factor, 2), in centihours
AdjustedRuntime(runtime_hours, cap_factor) ==
    IF runtime_hours = Inf THEN Inf
    ELSE RoundHalfEven(runtime_hours * cap_factor, 100)

\* round(adjusted_runtime_h * 60, 1), in tenths of a minute
RuntimeMinutes(adjusted_runtime_h) ==
    IF adjusted_runtime_h = Inf THEN Inf ELSE adjusted_runtime_h * 6

\* the location keys a node keeps
LocationKeys == {"lat", "lon", "elevation_m"}

\* {k: v for k, v in (location or {}).items() if k in {"lat", "lon", "elevation_m"}}
NodeLocation(location) ==
    [k \in DOMAIN location \cap LocationKeys |-> location[k]]

\* _build_node
BuildNode(node_id, name, b, est, roles, notes, altitude_band, temperature_band, location) ==
    LET rf_bands == DeriveRfBands(b.radio)
        cap_factor == BatteryCapacityFactor(altitude_band, temperature_band)
        adjusted_runtime_h == AdjustedRuntime(est.runtime_hours, cap_factor)
        env == [ propagation |-> b.environment,
                 altitude_band |-> altitude_band,
                 temperature_band |-> temperature_band ]
        node_entry ==
            [ id |-> node_id,
              name |-> name,
              origin_tool |-> "node",
              platform_id |-> "platform-" \o b.host.id,
              roles |-> roles,
              rf_bands |-> rf_bands,
              power_profile |->
                  [ estimated_draw_w |-> est.total_power_w,
                    ideal_runtime_h |-> est.runtime_hours,
                    adjusted_runtime_h |-> adjusted_runtime_h,
                    capacity_factor |-> cap_factor ],
              environment |-> env,
              capabilities |-> est.capabilities,
              recommended_role |-> est.recommended_role,
              host_type |-> [id |-> b.host.id, name |-> b.host.name],
              radios |-> << [ id |-> b.radio.id, name |-> b.radio.name,
                              radio_type |-> b.radio.radio_type,
                              bands |-> b.radio.bands ] >>,
              antennas |-> << [ id |-> b.antenna.id, name |-> b.antenna.name,
                                gain_dbi |-> b.antenna.gain_dbi,
                                pattern |-> b.antenna.pattern ] >>,
              battery |-> [id |-> b.battery.id, capacity_wh |-> b.battery.capacity_wh],
              sensors |->
                  [ i \in DOMAIN b.sensors |->
                      [ id |-> b.sensors[i].id, name |-> b.sensors[i].name,
                        type |-> b.sensors[i].sensor_type ] ],
              estimated_runtime_min |-> RuntimeMinutes(adjusted_runtime_h),
              environment_assumptions |-> env,
              parts |->
                  [ host_id |-> b.host.id,
                    battery_id |-> b.battery.id,
                    rf_chains |->
                        << [radio_id |-> b.radio.id, antenna_id |-> b.antenna.id] >>,
                    sensor_ids |-> [i \in DOMAIN b.sensors |-> b.sensors[i].id] ],
              notes |-> notes ]
        located ==
            IF DOMAIN location # {} THEN Put(node_entry, "location", location)
            ELSE node_entry
    IN  IF est.range_km # None
        THEN Put(located, "mesh_hints",
                 << [ band |-> IF rf_bands # <<>> THEN rf_bands[1] ELSE b.radio.radio_type,
                      estimated_range_km |-> est.range_km.v ] >>)
        ELSE located

\* platforms[platform_entry["id"]] = platform_entry on an insertion-ordered dict,
\* kept as the list of its values
PlatformPutAppend(platforms, entry) == Append(platforms, entry)
PlatformPut(platforms, entry) ==
    IF \E i \in DOMAIN platforms : platforms[i].id = entry.id
    THEN [i \in DOMAIN platforms |->
              IF platforms[i].id = entry.id THEN entry ELSE platforms[i]]
    ELSE Append(platforms, entry)

\* the platforms dict after the loop over builds
RECURSIVE AssemblePlatforms(_, _)
AssemblePlatforms(builds, platforms) ==
    IF builds = <<>> THEN platforms
    ELSE AssemblePlatforms(Tail(builds),
                           PlatformPut(platforms, BuildPlatform(Head(builds).build.host)))

\* the node assemble_project appends for one (node_id, build, estimate, roles,
\* label, location) tuple
ProjectNode(t) ==
    BuildNode(t.node_id,
              IF t.label # "" THEN t.label ELSE t.node_id,
              t.build, t.estimate, t.roles, t.label,
              IF DOMAIN t.location # {}
              THEN Get(t.location, "altitude_band", "band_2000_3000")
              ELSE "band_2000_3000",
              IF DOMAIN t.location # {}
              THEN Get(t.location, "temperature_band", "cold")
              ELSE "cold",
              NodeLocation(t.location))

\* the same for assemble_node_bundle with its altitude_band / temperature_band
BundleNode(t, altitude_band, temperature_band) ==
    BuildNode(t.node_id,
              IF t.label # "" THEN t.label ELSE t.node_id,
              t.build, t.estimate, t.roles, t.label,
              Get(t.location, "altitude_band", altitude_band),
              Get(t.location, "temperature_band", temperature_band),
              NodeLocation(t.location))

AssembleProject(builds, mission, schema_version_arg) ==
    LET schema_version ==
            IF schema_version_arg # NoSchemaVersion THEN schema_version_arg
            ELSE SCHEMA_VERSION
        doc ==
            [ schemaVersion |-> schema_version,
              origin_tool |-> "node",
              generated_at |-> Null,
              mission |-> mission,
              environment |-> EmptyDict,
              constraints |-> <<>>,
              platforms |-> AssemblePlatforms(builds, <<>>),
              nodes |-> [i \in DOMAIN builds |-> ProjectNode(builds[i])],
              mesh_links |-> <<>>,
              kits |-> <<>> ]
    IN  IF schema_version # SCHEMA_VERSION THEN Put(doc, "schema", schema_version)
        ELSE doc

AssembleNodeBundle(builds, altitude_band, temperature_band, mission, schema_version) ==
    [ schemaVersion |-> schema_version,
      meta |-> [origin_tool |-> "node"],
      origin_tool |-> "node",
      mission |-> mission,
      platforms |-> AssemblePlatforms(builds, <<>>),
      nodes |-> [i \in DOMAIN builds |->
                    BundleNode(builds[i], altitude_band, temperature_band)] ]

(***************************************************************************)
(* mission_project.py: import (document -> builds)                         *)
(***************************************************************************)

\* find_by_id wrapped by _match_component: the first item with that id, or None
RECURSIVE MatchComponent(_, _)
MatchComponent(items, identifier) ==
    IF items = <<>> THEN None
    ELSE IF Head(items).id = identifier THEN Head(items)
    ELSE MatchComponent(Tail(items), identifier)

\* _match_component(items, d.get(k)): d.get(k) is None when k is missing, and no
\* component has the id None
MatchKey(items, d, k) ==
    IF k \in DOMAIN d THEN MatchComponent(items, d[k]) ELSE None

\* the radio and the antenna of the first rf chain
ChainRadioByAntennaId(inventory, rf_chains) ==
    IF rf_chains # <<>> THEN MatchKey(inventory.radios, rf_chains[1], "antenna_id")
    ELSE None
ChainRadio(inventory, rf_chains) ==
    IF rf_chains # <<>> THEN MatchKey(inventory.radios, rf_chains[1], "radio_id")
    ELSE None
ChainAntenna(inventory, rf_chains) ==
    IF rf_chains # <<>> THEN MatchKey(inventory.antennas, rf_chains[1], "antenna_id")
    ELSE None

\* the loop over parts.sensor_ids: <<sensors, warnings>>
RECURSIVE MatchSensors(_, _, _)
MatchSensors(inventory, sensor_ids, node_id) ==
    IF sensor_ids = <<>> THEN << <<>>, <<>> >>
    ELSE LET sensor == MatchComponent(inventory.sensors, Head(sensor_ids))
             rest == MatchSensors(inventory, Tail(sensor_ids), node_id)
         IN  IF sensor # None
             THEN << <<sensor>> \o rest[1], rest[2] >>
             ELSE << rest[1],
                     << [kind |-> "missing_sensor", sid |-> Head(sensor_ids),
                         node |-> node_id] >> \o rest[2] >>

\* a dict-or-null value that Python takes as true
TruthyDict(d) == d # Null /\ DOMAIN d # {}

\* one turn of the loop of project_to_builds:
\* raised (AttributeError on parts = null), the builds and warnings it appends
ImportNode(node, inventory) ==
    LET parts == Get(node, "parts", EmptyDict)
        node_id == Get(node, "id", "None")
    IN  IF parts = Null
        THEN [raised |-> TRUE, builds |-> <<>>, warnings |-> <<>>]
        ELSE LET host == MatchKey(inventory.hosts, parts, "host_id")
                 rf_chains == Get(parts, "rf_chains", <<>>)
                 radio == ChainRadio(inventory, rf_chains)
                 antenna == ChainAntenna(inventory, rf_chains)
                 battery == MatchKey(inventory.batteries, parts, "battery_id")
                 found == MatchSensors(inventory, Get(parts, "sensor_ids", <<>>), node_id)
                 env == Get(node, "environment", Null)
             IN  IF host = None \/ radio = None \/ antenna = None \/ battery = None
                 THEN [ raised |-> FALSE, builds |-> <<>>,
                        warnings |-> found[2] \o << [kind |-> "skip", node |-> node_id] >> ]
                 ELSE [ raised |-> FALSE,
                        builds |->
                            << [ host |-> host, radio |-> radio, antenna |-> antenna,
                                 battery |-> battery, sensors |-> found[1],
                                 environment |->
                                     IF TruthyDict(env)
                                     THEN Get(env, "propagation", "rural_open")
                                     ELSE "rural_open" ] >>,
                        warnings |-> found[2] ]

RECURSIVE ImportFrom(_, _, _)
ImportFrom(nodes, inventory, acc) ==
    IF nodes = <<>> THEN acc
    ELSE LET r == ImportNode(Head(nodes), inventory)
         IN  IF r.raised THEN [raised |-> TRUE, builds |-> <<>>, warnings |-> <<>>]
             ELSE ImportFrom(Tail(nodes), inventory,
                             [ raised |-> FALSE,
                               builds |-> acc.builds \o r.builds,
                               warnings |-> acc.warnings \o r.warnings ])

\* project_to_builds: the (builds, warnings) it returns, or that it raised
ProjectToBuilds(doc, inventory) ==
    ImportFrom(Get(doc, "nodes", <<>>), inventory,
               [raised |-> FALSE, builds |-> <<>>, warnings |-> <<>>])

(***************************************************************************)
(* The component catalog (load_components) the runs below resolve against  *)
(***************************************************************************)

HostRpi ==
    [ id |-> "rpi4", name |-> "Raspberry Pi 4", cpu_score |-> 6,
      power_w_idle |-> 300, power_w_load |-> 700, power_w |-> 500 ]
HostJetson ==
    [ id |-> "jetson", name |-> "Jetson Orin", cpu_score |-> 9,
      power_w_idle |-> 500, power_w_load |-> 1500, power_w |-> 1000 ]
\* a host that is no longer in the catalog
HostRetired ==
    [ id |-> "retired", name |-> "Retired SBC", cpu_score |-> 5,
      power_w_idle |-> 0, power_w_load |-> 0, power_w |-> 400 ]
RadioWifi ==
    [ id |-> "wifi-csi", name |-> "WiFi CSI", radio_type |-> "wifi",
      band |-> "2.4GHz,5GHz", bands |-> <<"2.4GHz", "5GHz">>, antenna_gain_db |-> 0,
      supports_csi |-> TRUE, supports_monitor |-> TRUE,
      power_w_tx |-> 200, power_w_rx |-> 100, power_w |-> 150 ]
RadioLte ==
    [ id |-> "lte-modem", name |-> "LTE modem", radio_type |-> "cellular",
      band |-> "LTE", bands |-> <<"LTE">>, antenna_gain_db |-> 0,
      supports_csi |-> FALSE, supports_monitor |-> FALSE,
      power_w_tx |-> 0, power_w_rx |-> 0, power_w |-> 250 ]
AntennaOmni ==
    [id |-> "omni-3", name |-> "Omni 3 dBi", gain_dbi |-> 3, pattern |-> "omni"]
AntennaYagi ==
    [id |-> "yagi-9", name |-> "Yagi 9 dBi", gain_dbi |-> 9, pattern |-> "yagi"]
BatterySmall == [id |-> "pack-50", name |-> "50 Wh pack", capacity_wh |-> 5000]
BatteryLarge == [id |-> "pack-100", name |-> "100 Wh pack", capacity_wh |-> 10000]
SensorCamera ==
    [id |-> "cam", name |-> "Camera", sensor_type |-> "camera", power_w |-> 100]
SensorGps ==
    [id |-> "gps", name |-> "GPS", sensor_type |-> "gps", power_w |-> 50]

Inventory ==
    [ hosts |-> <<HostRpi, HostJetson>>,
      radios |-> <<RadioWifi, RadioLte>>,
      antennas |-> <<AntennaOmni, AntennaYagi>>,
      batteries |-> <<BatterySmall, BatteryLarge>>,
      sensors |-> <<SensorCamera, SensorGps>> ]

IdsOf(items) == {items[i].id : i \in DOMAIN items}

(***************************************************************************)
(* The export run: builds are assembled into a document, which is imported *)
(***************************************************************************)

MaxBuilds == 2

NodeIds == <<"node-a", "node-b", "node-c", "node-d">>

\* the location dict of a build tuple: none, or a site with its bands
Locations ==
    { EmptyDict,
      [ lat |-> 46, lon |-> 7, altitude_band |-> "above_3000",
        temperature_band |-> "very_cold" ] }

\* the builds a request may name: <<build, location>>
ExportBuilds ==
    { [ build |->
          [ host |-> h, radio |-> ra[1], antenna |-> ra[2], battery |-> bs[1],
            sensors |-> bs[2], environment |-> "rural_open" ],
        location |-> loc ] :
      h \in {HostRpi, HostJetson, HostRetired},
      ra \in {<<RadioWifi, AntennaOmni>>, <<RadioLte, AntennaYagi>>},
      bs \in {<<BatterySmall, <<>> >>, <<BatteryLarge, <<SensorGps, SensorCamera>> >>},
      loc \in Locations }

\* the (node_id, build, estimate, roles, label, location) tuple cli.py makes
BuildTuple(i, e) ==
    LET est == EstimateNode(e.build)
    IN  [ node_id |-> NodeIds[i], build |-> e.build, estimate |-> est,
          roles |-> <<est.recommended_role>>, label |-> NodeIds[i],
          location |-> e.location ]

\* export-mission (with schema_version None, current or legacy) and export-bundle
Requests ==
    { [ kind |-> k[1], schema_version |-> k[2],
        builds |-> [i \in DOMAIN bs |-> BuildTuple(i, bs[i])] ] :
      k \in { <<"project", NoSchemaVersion>>, <<"project", LEGACY_SCHEMA_TAG>>,
              <<"bundle", SCHEMA_VERSION>> },
      bs \in SeqsUpTo(ExportBuilds, MaxBuilds) }

InitExport ==
    /\ pc = "requested"
    /\ request \in Requests
    /\ build = NoValue
    /\ estimate = NoValue
    /\ project = NoValue
    /\ original = NoValue
    /\ imported = NoValue
    /\ geojson = NoValue
    /\ cot = NoValue
    /\ constructed = NoValue
    /\ heap = NoValue

\* assemble_project / assemble_node_bundle
Export ==
    /\ pc = "requested"
    /\ project' =
           IF request.kind = "project"
           THEN AssembleProject(request.builds, [name |-> "demo"], request.schema_version)
           ELSE AssembleNodeBundle(request.builds, "band_2000_3000", "cold",
                                   [name |-> "demo"], request.schema_version)
    /\ pc' = "exported"
    /\ UNCHANGED <<build, estimate, request, original, imported, geojson, cot, constructed, heap>>

\* project_to_builds on the document at hand
Import ==
    /\ pc = "exported"
    /\ imported' = ProjectToBuilds(project, Inventory)
    /\ pc' = "imported"
    /\ UNCHANGED <<build, estimate, request, project, original, geojson, cot, constructed, heap>>

NextExport == Export \/ Import

SpecExport == InitExport /\ [][NextExport]_vars

(***************************************************************************)
(* Claims about export and the round trip                                  *)
(***************************************************************************)

\* the component ids of a build: host, radio, antenna, battery, and the sensor ids
\* as a set
BuildIds(b) ==
    [ host |-> b.host.id, radio |-> b.radio.id, antenna |-> b.antenna.id,
      battery |-> b.battery.id,
      sensors |-> {b.sensors[i].id : i \in DOMAIN b.sensors} ]

\* every component of the build is in the catalog
InCatalog(b) ==
    /\ b.host.id \in IdsOf(Inventory.hosts)
    /\ b.radio.id \in IdsOf(Inventory.radios)
    /\ b.antenna.id \in IdsOf(Inventory.antennas)
    /\ b.battery.id \in IdsOf(Inventory.batteries)
    /\ \A i \in DOMAIN b.sensors : b.sensors[i].id \in IdsOf(Inventory.sensors)

\* the exported builds whose components are all in the catalog, in order
CatalogBuilds == SelectSeq(request.builds, LAMBDA t : InCatalog(t.build))

\* C1: exporting builds and importing the document against the same catalog gives,
\* for the builds whose components are all in the catalog and in their order, builds
\* with the same host, radio, antenna and battery ids and the same set of sensor ids.
C1_RoundTrip ==
    pc = "imported" =>
        /\ ~imported.raised
        /\ Len(imported.builds) = Len(CatalogBuilds)
        /\ \A i \in 1..Len(CatalogBuilds) :
               BuildIds(imported.builds[i]) = BuildIds(CatalogBuilds[i].build)

\* two catalog builds with different radios and sensors went through the round trip
C1_Witness ==
    /\ pc = "imported"
    /\ Len(CatalogBuilds) = 2
    /\ Len(imported.builds) = 2
    /\ imported.builds[1].radio.id # imported.builds[2].radio.id
    /\ imported.builds[2].sensors # <<>>

\* the host ids of the exported builds
RequestHostIds == {request.builds[i].build.host.id : i \in DOMAIN request.builds}

\* C9: in an assembled document the platform ids are pairwise different, there is
\* exactly one platform "platform-<hostId>" per distinct host id of the builds, and
\* every node's platform_id is the id of one of the platforms.
C9_PlatformsUniqueAndReferenced ==
    pc \in {"exported", "imported"} =>
        /\ \A i, j \in DOMAIN project.platforms :
               project.platforms[i].id = project.platforms[j].id => i = j
        /\ IdsOf(project.platforms) = {"platform-" \o h : h \in RequestHostIds}
        /\ Len(project.platforms) = Cardinality(RequestHostIds)
        /\ \A n \in DOMAIN project.nodes :
               project.nodes[n].platform_id \in IdsOf(project.platforms)

\* two nodes share one host, and the document holds one platform for both
C9_Witness ==
    /\ pc = "exported"
    /\ Len(project.nodes) = 2
    /\ project.nodes[1].platform_id = project.nodes[2].platform_id
    /\ Len(project.platforms) = 1

\* C10 as stated: an export with the legacy schema tag carries `schema` and no
\* `schemaVersion`, and every node's power profile is unadjusted: capacity_factor
\* 1.0 and adjusted_runtime_h equal to ideal_runtime_h.
C10_LegacyShape ==
    ( /\ pc = "exported"
      /\ request.kind = "project"
      /\ request.schema_version = LEGACY_SCHEMA_TAG
      /\ request.builds # <<>> ) =>
        /\ "schema" \in DOMAIN project
        /\ "schemaVersion" \notin DOMAIN project
        /\ \A n \in DOMAIN project.nodes :
               /\ project.nodes[n].power_profile.capacity_factor = 100
               /\ project.nodes[n].power_profile.adjusted_runtime_h
                      = project.nodes[n].power_profile.ideal_runtime_h

(***************************************************************************)
(* The import run: a MissionProject document from a file is imported       *)
(***************************************************************************)

MaxNodes == 2

\* the `parts` of a node of a document: a dict with or without each key, ids that
\* are in the catalog or not ("ghost")
PartsDicts ==
    { h @@ b @@ c @@ x :
        h \in {[host_id |-> "rpi4"], [host_id |-> "ghost"]},
        b \in {[battery_id |-> "pack-50"], EmptyDict},
        c \in { EmptyDict,
                [rf_chains |-> <<>>],
                [rf_chains |-> << [radio_id |-> "wifi-csi", antenna_id |-> "omni-3"] >>],
                [rf_chains |-> << [radio_id |-> "ghost", antenna_id |-> "omni-3"] >>] },
        x \in { EmptyDict,
                [sensor_ids |-> <<"cam">>],
                [sensor_ids |-> <<"ghost", "gps">>] } }

\* a node without its id: no parts, parts null, or a parts dict
NodeShapes ==
    {EmptyDict, [parts |-> Null]} \cup {[parts |-> p] : p \in PartsDicts}

ImportDocs ==
    { [ schemaVersion |-> SCHEMA_VERSION,
        nodes |-> [i \in DOMAIN ns |-> Put(ns[i], "id", NodeIds[i])] ] :
      ns \in SeqsUpTo(NodeShapes, MaxNodes) }

InitImport ==
    /\ pc = "exported"
    /\ project \in ImportDocs
    /\ build = NoValue
    /\ estimate = NoValue
    /\ request = NoValue
    /\ original = NoValue
    /\ imported = NoValue
    /\ geojson = NoValue
    /\ cot = NoValue
    /\ constructed = NoValue
    /\ heap = NoValue

NextImport == Import

SpecImport == InitImport /\ [][NextImport]_vars

(***************************************************************************)
(* Claims about import                                                     *)
(***************************************************************************)

\* the node's host, radio, antenna and battery ids are all present and in the catalog
Resolvable(node) ==
    /\ "parts" \in DOMAIN node
    /\ node.parts # Null
    /\ "host_id" \in DOMAIN node.parts
    /\ node.parts.host_id \in IdsOf(Inventory.hosts)
    /\ "battery_id" \in DOMAIN node.parts
    /\ node.parts.battery_id \in IdsOf(Inventory.batteries)
    /\ "rf_chains" \in DOMAIN node.parts
    /\ node.parts.rf_chains # <<>>
    /\ "radio_id" \in DOMAIN node.parts.rf_chains[1]
    /\ node.parts.rf_chains[1].radio_id \in IdsOf(Inventory.radios)
    /\ "antenna_id" \in DOMAIN node.parts.rf_chains[1]
    /\ node.parts.rf_chains[1].antenna_id \in IdsOf(Inventory.antennas)

\* the sensor ids a node lists
SensorIdsOf(node) ==
    IF "parts" \in DOMAIN node /\ node.parts # Null /\ "sensor_ids" \in DOMAIN node.parts
    THEN node.parts.sensor_ids
    ELSE <<>>

ResolvableNodes == SelectSeq(project.nodes, Resolvable)

SkipWarningsFor(node_id) ==
    {i \in DOMAIN imported.warnings :
        imported.warnings[i] = [kind |-> "skip", node |-> node_id]}

SensorWarningsFor(node_id) ==
    {i \in DOMAIN imported.warnings :
        /\ imported.warnings[i].kind = "missing_sensor"
        /\ imported.warnings[i].node = node_id}

\* C4 as stated: project_to_builds returns normally for every document; each node
\* whose host, radio, antenna or battery cannot be resolved is left out with exactly
\* one skip warning, and every resolvable node is returned, in document order.
C4_ImportNeverRaises ==
    pc = "imported" =>
        /\ ~imported.raised
        /\ Len(imported.builds) = Len(ResolvableNodes)
        /\ \A i \in 1..Len(ResolvableNodes) :
               /\ i <= Len(imported.builds)
               /\ imported.builds[i].host.id = ResolvableNodes[i].parts.host_id
               /\ imported.builds[i].battery.id = ResolvableNodes[i].parts.battery_id
        /\ \A n \in DOMAIN project.nodes :
               Cardinality(SkipWarningsFor(project.nodes[n].id))
                   = IF Resolvable(project.nodes[n]) THEN 0 ELSE 1

\* C5 as stated: every sensor id of a node that is not in the catalog produces one
\* warning, and a node that is otherwise resolvable is returned as a build holding
\* exactly its resolvable sensors, in order.
C5_MissingSensorsWarned ==
    pc = "imported" =>
        \A n \in DOMAIN project.nodes :
            LET node == project.nodes[n]
                ids == SensorIdsOf(node)
                missing == {i \in DOMAIN ids : ids[i] \notin IdsOf(Inventory.sensors)}
                known == SelectSeq(ids, LAMBDA sid : sid \in IdsOf(Inventory.sensors))
                position == Len(SelectSeq(SubSeq(project.nodes, 1, n), Resolvable))
            IN  /\ Cardinality(SensorWarningsFor(node.id)) = Cardinality(missing)
                /\ Resolvable(node) =>
                       /\ position <= Len(imported.builds)
                       /\ [i \in DOMAIN imported.builds[position].sensors |->
                              imported.builds[position].sensors[i].id] = known

\* what holds of both when no node of the document has `parts: null`
ImportContractWithoutNullParts ==
    (pc = "imported" /\ \A n \in DOMAIN project.nodes : Get(project.nodes[n], "parts", EmptyDict) # Null)
        => (C4_ImportNeverRaises /\ C5_MissingSensorsWarned)

(***************************************************************************)
(* mission_project.py: schema upgrade                                      *)
(***************************************************************************)

\* merge_unknown_fields: a copy of original, updated with every key of updated
MergeUnknownFields(orig, updated) ==
    [ k \in DOMAIN orig \cup DOMAIN updated |->
        IF k \in DOMAIN updated THEN updated[k] ELSE orig[k] ]

\* node.setdefault("origin_tool", upgraded.get("origin_tool", "node"))
BackfillOriginToolOverwrite(node, doc) ==
    Put(node, "origin_tool", Get(doc, "origin_tool", "node"))
BackfillOriginTool(node, doc) ==
    SetDefault(node, "origin_tool", Get(doc, "origin_tool", "node"))

\* a or b or {} on dict-or-null values
FirstTruthyDict(a, b) ==
    IF TruthyDict(a) THEN a ELSE IF TruthyDict(b) THEN b ELSE EmptyDict

\* the two fields assigned from each other instead of defaulted
NormalizeEnvironmentSwapped(node) ==
    LET e == Get(node, "environment", Null)
        a == Get(node, "environment_assumptions", Null)
    IN  Put(Put(node, "environment", FirstTruthyDict(a, e)),
            "environment_assumptions", FirstTruthyDict(e, a))

\* environment = node.get("environment") or node.get("environment_assumptions") or {}
\* node.setdefault("environment", environment)
\* node.setdefault("environment_assumptions", environment)
NormalizeEnvironment(node) ==
    LET environment ==
            FirstTruthyDict(Get(node, "environment", Null),
                            Get(node, "environment_assumptions", Null))
    IN  SetDefault(SetDefault(node, "environment", environment),
                   "environment_assumptions", environment)

\* (node.get("power_profile") or {}).get("adjusted_runtime_h") taken as a condition
HasAdjustedRuntime(node) ==
    LET pp == Get(node, "power_profile", Null)
    IN  /\ TruthyDict(pp)
        /\ "adjusted_runtime_h" \in DOMAIN pp
        /\ pp.adjusted_runtime_h # 0

\* estimated_runtime_min from power_profile.adjusted_runtime_h when absent
BackfillRuntime(node) ==
    IF "estimated_runtime_min" \notin DOMAIN node /\ HasAdjustedRuntime(node)
    THEN Put(node, "estimated_runtime_min",
             RuntimeMinutes(node.power_profile.adjusted_runtime_h))
    ELSE node

\* a host_type stub from parts.host_id when host_type is absent
BackfillHostType(node) ==
    IF "host_type" \in DOMAIN node THEN node
    ELSE LET p == Get(node, "parts", Null)
             parts == IF TruthyDict(p) THEN p ELSE EmptyDict
         IN  IF "host_id" \in DOMAIN parts /\ parts.host_id # ""
             THEN Put(node, "host_type",
                      [ id |-> parts.host_id,
                        name |-> Get(parts, "host_name", parts.host_id),
                        tags |-> Get(parts, "host_tags", <<>>) ])
             ELSE node

\* the body of the loop over upgraded["nodes"]
UpgradeNode(node, doc) ==
    BackfillHostType(BackfillRuntime(NormalizeEnvironment(BackfillOriginTool(node, doc))))

\* upgrade_project_schema
UpgradeProjectSchema(doc) ==
    LET legacy == doc
        u1 == Put(doc, "schemaVersion", SCHEMA_VERSION)
        u2 == SetDefault(u1, "mission", Get(legacy, "mission", EmptyDict))
        u3 == SetDefault(u2, "environment", Get(legacy, "environment", EmptyDict))
        u4 == SetDefault(u3, "constraints", Get(legacy, "constraints", <<>>))
        u5 == SetDefault(u4, "platforms", Get(legacy, "platforms", <<>>))
        u6 == SetDefault(u5, "nodes", Get(legacy, "nodes", <<>>))
        u7 == SetDefault(u6, "mesh_links", Get(legacy, "mesh_links", <<>>))
        u8 == SetDefault(u7, "kits", Get(legacy, "kits", <<>>))
        u9 == SetDefault(u8, "origin_tool", Get(legacy, "origin_tool", "node"))
        upgraded ==
            Put(u9, "nodes", [i \in DOMAIN u9.nodes |-> UpgradeNode(u9.nodes[i], u9)])
    IN  MergeUnknownFields(doc, upgraded)

(***************************************************************************)
(* The upgrade run: a document from a file is upgraded, and upgraded again *)
(***************************************************************************)

MaxUpgradeNodes == 1

\* the fields of a node of a document that the upgrade reads, each present or not
UpgradeNodeShapes ==
    { o @@ e @@ r @@ h :
        o \in { EmptyDict, [origin_tool |-> "planner", x_vendor |-> "kept"] },
        e \in { EmptyDict,
                [environment_assumptions |-> [propagation |-> "urban_indoor"]],
                [ environment |-> Null,
                  environment_assumptions |-> [propagation |-> "urban_indoor"] ],
                [ environment |-> [propagation |-> "lab"],
                  environment_assumptions |-> [propagation |-> "urban_indoor"] ] },
        r \in { EmptyDict,
                [power_profile |-> Null],
                [power_profile |-> [adjusted_runtime_h |-> 0]],
                [power_profile |-> [adjusted_runtime_h |-> 631]],
                [ power_profile |-> [adjusted_runtime_h |-> 631],
                  estimated_runtime_min |-> 1200 ] },
        h \in { EmptyDict,
                [parts |-> Null],
                [parts |-> [host_id |-> "rpi4"]],
                [ parts |-> [host_id |-> "rpi4"],
                  host_type |-> [id |-> "custom", name |-> "Custom", tags |-> <<>>] ] } }

UpgradeDocs ==
    { v @@ t @@ n :
        v \in { EmptyDict, [schemaVersion |-> "1.0.0"], [schemaVersion |-> SCHEMA_VERSION] },
        t \in { EmptyDict,
                [ schema |-> LEGACY_SCHEMA_TAG, origin_tool |-> "planner",
                  mission |-> [name |-> "demo"] ] },
        n \in {EmptyDict} \cup
              { [ nodes |-> [i \in DOMAIN ns |-> Put(ns[i], "id", NodeIds[i])] ] :
                ns \in SeqsUpTo(UpgradeNodeShapes, MaxUpgradeNodes) } }

InitUpgrade ==
    /\ pc = "loaded"
    /\ project \in UpgradeDocs
    /\ original = NoValue
    /\ build = NoValue
    /\ estimate = NoValue
    /\ request = NoValue
    /\ imported = NoValue
    /\ geojson = NoValue
    /\ cot = NoValue
    /\ constructed = NoValue
    /\ heap = NoValue

\* upgrade_project_schema on the document at hand; `original` keeps its argument
Upgrade ==
    /\ pc \in {"loaded", "upgraded"}
    /\ original' = project
    /\ project' = UpgradeProjectSchema(project)
    /\ pc' = IF pc = "loaded" THEN "upgraded" ELSE "upgraded_twice"
    /\ UNCHANGED <<build, estimate, request, imported, geojson, cot, constructed, heap>>

NextUpgrade == Upgrade

SpecUpgrade == InitUpgrade /\ [][NextUpgrade]_vars

(***************************************************************************)
(* Claims about the schema upgrade                                         *)
(***************************************************************************)

\* C2: upgrading a document that is already the result of an upgrade returns it
\* unchanged: upgrade(upgrade(d)) = upgrade(d).
C2_UpgradeIdempotent ==
    pc = "upgraded_twice" => project = original

\* a document whose first upgrade synthesized a host_type stub and a runtime in
\* minutes was upgraded a second time
C2_Witness ==
    /\ pc = "upgraded_twice"
    /\ \E n \in DOMAIN project.nodes :
           /\ "host_type" \in DOMAIN project.nodes[n]
           /\ project.nodes[n].host_type.id = "rpi4"
           /\ "estimated_runtime_min" \in DOMAIN project.nodes[n]
           /\ project.nodes[n].estimated_runtime_min = 3786
           /\ project.nodes[n].environment # project.nodes[n].environment_assumptions

\* C3: every top-level key of the document other than schemaVersion, and every key
\* of every node, is in the upgraded document with the value it had; the nodes are
\* the same nodes in the same order.
C3_UpgradeKeepsFields ==
    pc \in {"upgraded", "upgraded_twice"} =>
        /\ \A k \in DOMAIN original \ {"schemaVersion", "nodes"} :
               k \in DOMAIN project /\ project[k] = original[k]
        /\ "nodes" \in DOMAIN original =>
               /\ Len(project.nodes) = Len(original.nodes)
               /\ \A n \in DOMAIN original.nodes :
                      \A k \in DOMAIN original.nodes[n] :
                          /\ k \in DOMAIN project.nodes[n]
                          /\ project.nodes[n][k] = original.nodes[n][k]

\* a legacy document with fields this version does not know, at the top level and
\* in a node, was upgraded, and the upgrade added keys to the node
C3_Witness ==
    /\ pc = "upgraded"
    /\ "schema" \in DOMAIN original
    /\ "nodes" \in DOMAIN original
    /\ \E n \in DOMAIN original.nodes :
           /\ "x_vendor" \in DOMAIN original.nodes[n]
           /\ DOMAIN project.nodes[n] # DOMAIN original.nodes[n]

(***************************************************************************)
(* mission_project.py: the GeoJSON and CoT projections                     *)
(***************************************************************************)

\* d.get(k) or {} on a dict-or-null value
GetOrEmpty(d, k) ==
    LET v == Get(d, k, Null)
    IN  IF TruthyDict(v) THEN v ELSE EmptyDict

\* "lat" in loc and "lon" in loc
HasLatLon(loc) == "lat" \in DOMAIN loc /\ "lon" \in DOMAIN loc

\* item.get("origin_tool", project.get("origin_tool", "node"))
OriginTool(item, doc) == Get(item, "origin_tool", Get(doc, "origin_tool", "node"))

\* the Point feature of a node whose location loc has lat and lon
PointFeature(node, loc, doc) ==
    [ type |-> "Feature",
      geometry |->
          [ type |-> "Point",
            coordinates |->
                IF "elevation_m" \in DOMAIN loc
                THEN <<loc.lon, loc.lat, loc.elevation_m>>
                ELSE <<loc.lon, loc.lat>> ],
      properties |->
          [ id |-> Get(node, "id", Null),
            name |-> Get(node, "name", Null),
            origin_tool |-> OriginTool(node, doc),
            roles |-> Get(node, "roles", <<>>),
            recommended_role |-> Get(node, "recommended_role", Null),
            rf_bands |-> Get(node, "rf_bands", <<>>),
            power_draw_w |-> Get(GetOrEmpty(node, "power_profile"), "estimated_draw_w", Null),
            runtime_h |-> Get(GetOrEmpty(node, "power_profile"), "adjusted_runtime_h", Null) ] ]

\* the first loop of to_geojson: one Point feature per node with lat and lon
RECURSIVE PointFeatures(_, _)
PointFeatures(nodes, doc) ==
    IF nodes = <<>> THEN <<>>
    ELSE LET node == Head(nodes)
             loc == GetOrEmpty(node, "location")
         IN  (IF HasLatLon(loc) THEN <<PointFeature(node, loc, doc)>> ELSE <<>>)
                 \o PointFeatures(Tail(nodes), doc)

\* {node.get("id"): node for node in nodes}: of the nodes of one id, the last
NodeLookup(nodes) ==
    [ id \in {nodes[i].id : i \in DOMAIN nodes} |->
        nodes[CHOOSE i \in DOMAIN nodes :
                  /\ nodes[i].id = id
                  /\ \A j \in DOMAIN nodes : nodes[j].id = id => j <= i] ]

\* the lookup of an end of a link that reads from_node whatever the end asked for
EndpointLocationFromNode(node_lookup, link, key) ==
    LET id == Get(link, "from_node", "")
    IN  IF id \in DOMAIN node_lookup
        THEN Get(node_lookup[id], "location", Null)
        ELSE Null

\* node_lookup.get(link.get(key, ""), {}).get("location")
EndpointLocation(node_lookup, link, key) ==
    LET id == Get(link, key, "")
    IN  IF id \in DOMAIN node_lookup
        THEN Get(node_lookup[id], "location", Null)
        ELSE Null

\* start and end and "lat" in start and "lon" in start and "lat" in end and "lon" in end
LinkDrawn(start, end) ==
    /\ TruthyDict(start)
    /\ TruthyDict(end)
    /\ HasLatLon(start)
    /\ HasLatLon(end)

\* the LineString feature of a link between the locations start and end
LineFeature(link, start, end, doc) ==
    [ type |-> "Feature",
      geometry |->
          [ type |-> "LineString",
            coordinates |->
                << <<start.lon, start.lat, Get(start, "elevation_m", Null)>>,
                   <<end.lon, end.lat, Get(end, "elevation_m", Null)>> >> ],
      properties |->
          [ id |-> Get(link, "id", Null),
            origin_tool |-> OriginTool(link, doc),
            band |-> Get(link, "band", Null),
            estimated_range_km |-> Get(link, "estimated_range_km", Null) ] ]

\* the second loop of to_geojson: one LineString feature per link drawn
RECURSIVE LineFeatures(_, _, _)
LineFeatures(links, node_lookup, doc) ==
    IF links = <<>> THEN <<>>
    ELSE LET link == Head(links)
             start == EndpointLocation(node_lookup, link, "from_node")
             end == EndpointLocation(node_lookup, link, "to_node")
         IN  (IF LinkDrawn(start, end) THEN <<LineFeature(link, start, end, doc)>> ELSE <<>>)
                 \o LineFeatures(Tail(links), node_lookup, doc)

\* to_geojson
ToGeojson(doc) ==
    LET nodes == Get(doc, "nodes", <<>>)
        node_lookup == NodeLookup(nodes)
    IN  [ type |-> "FeatureCollection",
          features |->
              PointFeatures(nodes, doc)
                  \o LineFeatures(Get(doc, "mesh_links", <<>>), node_lookup, doc) ]

\* the event of a node whose location loc has lat and lon;
\* remarks holds the parts of the formatted string
CotEvent(node, loc, doc) ==
    [ uid |-> Get(node, "id", Null),
      type |-> "a-f-G-U-C",
      how |-> "m-g",
      lat |-> loc.lat,
      lon |-> loc.lon,
      hae |-> Get(loc, "elevation_m", Null),
      name |-> Get(node, "name", Null),
      role |-> Get(node, "recommended_role", Null),
      remarks |-> <<"rf: ", Get(node, "rf_bands", <<>>), " | origin: ", OriginTool(node, doc)>> ]

\* the loop of to_cot_stub with the test for lon left out
RECURSIVE CotEventsLatOnly(_, _)
CotEventsLatOnly(nodes, doc) ==
    IF nodes = <<>> THEN <<>>
    ELSE LET node == Head(nodes)
             loc == GetOrEmpty(node, "location")
         IN  (IF "lat" \notin DOMAIN loc THEN <<>>
              ELSE <<CotEvent(node, loc @@ [lon |-> 0], doc)>>)
                 \o CotEventsLatOnly(Tail(nodes), doc)

\* the loop of to_cot_stub over nodes
RECURSIVE CotEvents(_, _)
CotEvents(nodes, doc) ==
    IF nodes = <<>> THEN <<>>
    ELSE LET node == Head(nodes)
             loc == GetOrEmpty(node, "location")
         IN  (IF "lat" \notin DOMAIN loc \/ "lon" \notin DOMAIN loc THEN <<>>
              ELSE <<CotEvent(node, loc, doc)>>)
                 \o CotEvents(Tail(nodes), doc)

\* to_cot_stub
ToCotStub(doc) == CotEvents(Get(doc, "nodes", <<>>), doc)

(***************************************************************************)
(* The ATAK export run: a parsed document is projected to GeoJSON and CoT  *)
(***************************************************************************)

MaxGeoNodes == 2
MaxLinks == 1

LinkIds == <<"link-1", "link-2", "link-3">>

\* the location of a node of a document: absent, null, empty, partial or complete
GeoNodeShapes ==
    { EmptyDict,
      [location |-> Null],
      [location |-> EmptyDict],
      [location |-> [lat |-> 40]],
      [location |-> [lon |-> 105]],
      [location |-> [lat |-> 40, lon |-> 105]],
      [location |-> [lat |-> 41, lon |-> 106, elevation_m |-> 1600]] }

\* a mesh link: each end absent, a node id of the document, or an id no node has
LinkEnds == {"", "node-a", "node-b", "ghost"}
GeoLinkShapes ==
    { (IF f = "" THEN EmptyDict ELSE [from_node |-> f])
          @@ (IF t = "" THEN EmptyDict ELSE [to_node |-> t]) :
        f \in LinkEnds, t \in LinkEnds }

\* current-version documents, which parse_project returns as they are
GeoDocs ==
    { [schemaVersion |-> SCHEMA_VERSION] @@ n @@ l :
        n \in {EmptyDict} \cup
              { [ nodes |-> [i \in DOMAIN ns |-> Put(ns[i], "id", NodeIds[i])] ] :
                ns \in SeqsUpTo(GeoNodeShapes, MaxGeoNodes) },
        l \in {EmptyDict} \cup
              { [ mesh_links |-> [i \in DOMAIN ls |-> Put(ls[i], "id", LinkIds[i])] ] :
                ls \in SeqsUpTo(GeoLinkShapes, MaxLinks) } }

InitGeo ==
    /\ pc = "parsed"
    /\ project \in GeoDocs
    /\ build = NoValue
    /\ estimate = NoValue
    /\ request = NoValue
    /\ original = NoValue
    /\ imported = NoValue
    /\ geojson = NoValue
    /\ cot = NoValue
    /\ constructed = NoValue
    /\ heap = NoValue

\* atak_export with a geojson path: to_geojson
ExportGeojson ==
    /\ pc = "parsed"
    /\ geojson' = ToGeojson(project)
    /\ pc' = "geojson_written"
    /\ UNCHANGED <<build, estimate, request, project, original, imported, cot, constructed, heap>>

\* atak_export with a cot path: to_cot_stub
ExportCot ==
    /\ pc \in {"parsed", "geojson_written"}
    /\ cot' = ToCotStub(project)
    /\ pc' = "cot_written"
    /\ UNCHANGED <<build, estimate, request, project, original, imported, geojson, constructed, heap>>

NextGeo == ExportGeojson \/ ExportCot

SpecGeo == InitGeo /\ [][NextGeo]_vars

(***************************************************************************)
(* Claims about the projections                                            *)
(***************************************************************************)

\* both projections of the document have been made
Projected == pc = "cot_written" /\ geojson # NoValue

\* the node has a location that holds both lat and lon
NodeLocated(node) ==
    /\ "location" \in DOMAIN node
    /\ node.location # Null
    /\ "lat" \in DOMAIN node.location
    /\ "lon" \in DOMAIN node.location

DocNodes == Get(project, "nodes", <<>>)
LocatedNodes == SelectSeq(DocNodes, NodeLocated)
PointsOf(fc) == SelectSeq(fc.features, LAMBDA f : f.geometry.type = "Point")
LinesOf(fc) == SelectSeq(fc.features, LAMBDA f : f.geometry.type = "LineString")

\* C11: the Point features of to_geojson and the events of to_cot_stub stand for
\* the same nodes: exactly the nodes whose location has both lat and lon, one
\* feature and one event each, in document order, at the node's lat and lon; the
\* other nodes are in neither projection.
C11_SameLocatedNodes ==
    Projected =>
        /\ Len(PointsOf(geojson)) = Len(LocatedNodes)
        /\ Len(cot) = Len(LocatedNodes)
        /\ \A i \in DOMAIN LocatedNodes :
               /\ PointsOf(geojson)[i].properties.id = LocatedNodes[i].id
               /\ PointsOf(geojson)[i].geometry.coordinates[1] = LocatedNodes[i].location.lon
               /\ PointsOf(geojson)[i].geometry.coordinates[2] = LocatedNodes[i].location.lat
               /\ cot[i].uid = LocatedNodes[i].id
               /\ cot[i].lat = LocatedNodes[i].location.lat
               /\ cot[i].lon = LocatedNodes[i].location.lon

\* a document whose first node has a lat but no lon and whose second node has
\* both was projected both ways: one feature and one event, for the second node
C11_Witness ==
    /\ Projected
    /\ Len(DocNodes) = 2
    /\ "location" \in DOMAIN DocNodes[1]
    /\ DocNodes[1].location # Null
    /\ DOMAIN DocNodes[1].location = {"lat"}
    /\ NodeLocated(DocNodes[2])
    /\ Len(cot) = 1
    /\ cot[1].uid = "node-b"
    /\ Len(PointsOf(geojson)) = 1

DocLinks == Get(project, "mesh_links", <<>>)

\* the link names the node at this end, and that node has both lat and lon
EndLocated(link, key) ==
    /\ key \in DOMAIN link
    /\ \E n \in DOMAIN DocNodes : DocNodes[n].id = link[key] /\ NodeLocated(DocNodes[n])

LocatedLinks ==
    SelectSeq(DocLinks, LAMBDA link : EndLocated(link, "from_node") /\ EndLocated(link, "to_node"))

\* C12: to_geojson emits one LineString feature for a mesh link if and only if
\* both its from_node and its to_node name nodes of the document that have both
\* lat and lon: the LineString features are those links, one each, in order.
C12_LinkDrawnIffBothLocated ==
    geojson # NoValue =>
        /\ Len(LinesOf(geojson)) = Len(LocatedLinks)
        /\ \A i \in DOMAIN LocatedLinks :
               LinesOf(geojson)[i].properties.id = LocatedLinks[i].id

\* a link between two located nodes was drawn
C12_Witness ==
    /\ geojson # NoValue
    /\ Len(DocLinks) = 1
    /\ Len(DocNodes) = 2
    /\ "from_node" \in DOMAIN DocLinks[1]
    /\ "to_node" \in DOMAIN DocLinks[1]
    /\ DocLinks[1].from_node = "node-a"
    /\ DocLinks[1].to_node = "node-b"
    /\ Len(LinesOf(geojson)) = 1
    /\ LinesOf(geojson)[1].geometry.coordinates[1][1] = DocNodes[1].location.lon
    /\ LinesOf(geojson)[1].geometry.coordinates[2][1] = DocNodes[2].location.lon

(***************************************************************************)
(* cli.py / data_loader.py: direct build parsing                           *)
(***************************************************************************)

\* an exception in place of a value
Raised(error, what) == [raised |-> TRUE, error |-> error, id |-> what]
Returned(v) == [raised |-> FALSE, value |-> v]

\* find_by_id: the first item with that id, or ValueError naming the id
RECURSIVE FindById(_, _)
FindById(items, identifier) ==
    IF items = <<>> THEN Raised("ValueError", identifier)
    ELSE IF Head(items).id = identifier THEN Returned(Head(items))
    ELSE FindById(Tail(items), identifier)

\* find_by_id(items, data[key]): KeyError when the config has no such key
FindByKey(items, data, key) ==
    IF key \notin DOMAIN data THEN Raised("KeyError", key)
    ELSE FindById(items, data[key])

\* the sensor list with an id the catalog lacks left out instead of raising
RECURSIVE FindSensorsSkipUnknown(_, _)
FindSensorsSkipUnknown(items, sensor_ids) ==
    IF sensor_ids = <<>> THEN Returned(<<>>)
    ELSE LET first == FindById(items, Head(sensor_ids))
             rest == FindSensorsSkipUnknown(items, Tail(sensor_ids))
         IN  IF first.raised THEN rest
             ELSE Returned(<<first.value>> \o rest.value)

\* [find_by_id(inventory["sensors"], sid) for sid in sensor_ids]
RECURSIVE FindSensors(_, _)
FindSensors(items, sensor_ids) ==
    IF sensor_ids = <<>> THEN Returned(<<>>)
    ELSE LET first == FindById(items, Head(sensor_ids))
             rest == FindSensors(items, Tail(sensor_ids))
         IN  IF first.raised THEN first
             ELSE IF rest.raised THEN rest
             ELSE Returned(<<first.value>> \o rest.value)

\* parse_build on the parsed JSON of the config file: the NodeBuild, or the
\* exception of the first lookup that fails
ParseBuild(data, inventory) ==
    LET host == FindByKey(inventory.hosts, data, "host")
        radio == FindByKey(inventory.radios, data, "radio")
        antenna == FindByKey(inventory.antennas, data, "antenna")
        battery == FindByKey(inventory.batteries, data, "battery")
        sensors == FindSensors(inventory.sensors, Get(data, "sensors", <<>>))
    IN  IF host.raised THEN host
        ELSE IF radio.raised THEN radio
        ELSE IF antenna.raised THEN antenna
        ELSE IF battery.raised THEN battery
        ELSE IF sensors.raised THEN sensors
        ELSE Returned([ host |-> host.value, radio |-> radio.value,
                        antenna |-> antenna.value, battery |-> battery.value,
                        sensors |-> sensors.value,
                        environment |-> Get(data, "environment", "rural_open") ])

(***************************************************************************)
(* The build run: a build config from a file is parsed against the catalog *)
(***************************************************************************)

MaxConfigSensors == 2

\* the sensor ids a config may name: two the catalog has, one it lacks
ConfigSensorIds == {"cam", "gps", "ghost-sensor"}

\* a key of the config with this value, or no such key when the value is ""
ConfigKey(k, v) == IF v = "" THEN EmptyDict ELSE (k :> v)

BuildConfigs ==
    { ConfigKey("host", h) @@ [radio |-> r, antenna |-> a, battery |-> b] @@ s @@ e :
        h \in {"rpi4", "ghost-host", ""},
        r \in {"wifi-csi", "ghost-radio"},
        a \in {"omni-3", "ghost-antenna"},
        b \in {"pack-50", "ghost-battery"},
        s \in {EmptyDict} \cup
              { [sensors |-> ids] : ids \in SeqsUpTo(ConfigSensorIds, MaxConfigSensors) },
        e \in {EmptyDict, [environment |-> "lab"]} }

InitBuild ==
    /\ pc = "config"
    /\ request \in BuildConfigs
    /\ build = NoValue
    /\ estimate = NoValue
    /\ project = NoValue
    /\ original = NoValue
    /\ imported = NoValue
    /\ geojson = NoValue
    /\ cot = NoValue
    /\ constructed = NoValue
    /\ heap = NoValue

\* parse_build: build holds the NodeBuild, or the exception raised
ParseConfig ==
    /\ pc = "config"
    /\ build' = ParseBuild(request, Inventory)
    /\ pc' = "build_parsed"
    /\ UNCHANGED <<estimate, request, project, original, imported, geojson, cot, constructed, heap>>

NextBuild == ParseConfig

SpecBuild == InitBuild /\ [][NextBuild]_vars

(***************************************************************************)
(* Claims about direct build parsing                                       *)
(***************************************************************************)

\* the config names an id its family of the catalog does not have
ConfigUnknownIds ==
    { request[k[1]] : k \in { kk \in { <<"host", "hosts">>, <<"radio", "radios">>,
                                       <<"antenna", "antennas">>, <<"battery", "batteries">> } :
                                  /\ kk[1] \in DOMAIN request
                                  /\ request[kk[1]] \notin IdsOf(Inventory[kk[2]]) } }
    \cup { sid \in { Get(request, "sensors", <<>>)[i] :
                         i \in DOMAIN Get(request, "sensors", <<>>) } :
               sid \notin IdsOf(Inventory.sensors) }

\* C13: parse_build fails with an error and returns no NodeBuild whenever the
\* host, radio, antenna or battery id, or any one id of `sensors`, is not in the
\* catalog; the error names an id the catalog lacks.
C13_UnknownIdFails ==
    (pc = "build_parsed" /\ ConfigUnknownIds # {}) =>
        /\ build.raised
        /\ "value" \notin DOMAIN build
        /\ build.error = "ValueError" => build.id \in ConfigUnknownIds

\* a config whose four components are in the catalog and whose second sensor id
\* is not was parsed: ValueError for that sensor id
C13_Witness ==
    /\ pc = "build_parsed"
    /\ "host" \in DOMAIN request
    /\ request.host = "rpi4"
    /\ "sensors" \in DOMAIN request
    /\ request.sensors = <<"gps", "ghost-sensor">>
    /\ ConfigUnknownIds = {"ghost-sensor"}
    /\ build.raised
    /\ build.id = "ghost-sensor"

(***************************************************************************)
(* mission_project.py: parse_project, and the run that parses a file       *)
(***************************************************************************)

\* parse_project that upgrades only a document that has a schemaVersion
ParseProjectVersionedOnly(doc) ==
    IF "schemaVersion" \in DOMAIN doc /\ doc.schemaVersion # SCHEMA_VERSION
    THEN UpgradeProjectSchema(doc)
    ELSE doc

\* parse_project on the parsed JSON of the file: project.get("schemaVersion") is
\* None, and so not the current version, when the key is missing
ParseProject(doc) ==
    IF "schemaVersion" \notin DOMAIN doc \/ doc.schemaVersion # SCHEMA_VERSION
    THEN UpgradeProjectSchema(doc)
    ELSE doc

InitParse ==
    /\ pc = "loaded"
    /\ project \in UpgradeDocs
    /\ original = NoValue
    /\ build = NoValue
    /\ estimate = NoValue
    /\ request = NoValue
    /\ imported = NoValue
    /\ geojson = NoValue
    /\ cot = NoValue
    /\ constructed = NoValue
    /\ heap = NoValue

\* parse_project; `original` keeps the document as it was in the file
Parse ==
    /\ pc = "loaded"
    /\ original' = project
    /\ project' = ParseProject(project)
    /\ pc' = "project_parsed"
    /\ UNCHANGED <<build, estimate, request, imported, geojson, cot, constructed, heap>>

NextParse == Parse

SpecParse == InitParse /\ [][NextParse]_vars

\* the document in the file is of the current version
FileIsCurrent ==
    "schemaVersion" \in DOMAIN original /\ original.schemaVersion = SCHEMA_VERSION

\* C14: parse_project returns a document whose schemaVersion is the current
\* version: a current-version document as it is, any other (schemaVersion absent
\* or different) upgraded; no version makes it fail.
C14_ParsedIsCurrent ==
    pc = "project_parsed" =>
        /\ "schemaVersion" \in DOMAIN project
        /\ project.schemaVersion = SCHEMA_VERSION
        /\ FileIsCurrent => project = original
        /\ ~FileIsCurrent => project = UpgradeProjectSchema(original)

\* a legacy document without schemaVersion was parsed and came back upgraded,
\* with the top-level keys the upgrade backfills
C14_Witness ==
    /\ pc = "project_parsed"
    /\ "schemaVersion" \notin DOMAIN original
    /\ "schema" \in DOMAIN original
    /\ project.schemaVersion = SCHEMA_VERSION
    /\ "kits" \in DOMAIN project
    /\ project.schema = LEGACY_SCHEMA_TAG

(***************************************************************************)
(* models.py: Host.__post_init__ and Radio.__post_init__                   *)
(*                                                                         *)
(* In this part a Python string is the sequence of its symbols: a band     *)
(* name such as "2.4GHz" is one symbol, and so is each of "," "/" and " ". *)
(* The empty string and the empty list are both <<>>.                      *)
(***************************************************************************)

\* sep.join(parts)
RECURSIVE Join(_, _)
Join(sep, parts) ==
    IF parts = <<>> THEN <<>>
    ELSE IF Len(parts) = 1 THEN parts[1]
    ELSE parts[1] \o <<sep>> \o Join(sep, Tail(parts))

\* str.split(sep): the pieces between the separators, empty pieces included
RECURSIVE Split(_, _)
Split(str, sep) ==
    IF str = <<>> THEN << <<>> >>
    ELSE LET rest == Split(Tail(str), sep)
         IN  IF Head(str) = sep THEN << <<>> >> \o rest
             ELSE << <<Head(str)>> \o Head(rest) >> \o Tail(rest)

\* str.strip()
RECURSIVE LStrip(_)
LStrip(str) ==
    IF str # <<>> /\ Head(str) = " " THEN LStrip(Tail(str)) ELSE str
RECURSIVE RStrip(_)
RStrip(str) ==
    IF str # <<>> /\ str[Len(str)] = " "
    THEN RStrip(SubSeq(str, 1, Len(str) - 1))
    ELSE str
Strip(str) == RStrip(LStrip(str))

\* [b.strip() for b in pieces if b]
RECURSIVE StripNonEmpty(_)
StripNonEmpty(pieces) ==
    IF pieces = <<>> THEN <<>>
    ELSE (IF Head(pieces) # <<>> THEN <<Strip(Head(pieces))>> ELSE <<>>)
             \o StripNonEmpty(Tail(pieces))

\* Host.__post_init__: power_w from the idle/load average when it is 0.0 and both
\* are given (os_options is not modelled)
HostPostInit(host) ==
    IF host.power_w = 0 /\ host.power_w_idle # 0 /\ host.power_w_load # 0
    THEN [host EXCEPT !.power_w = (host.power_w_idle + host.power_w_load) \div 2]
    ELSE host

\* the last statement of Radio.__post_init__: power_w from the tx/rx average when
\* it is 0.0 and both are given
RadioPowerPostInit(r) ==
    IF r.power_w = 0 /\ r.power_w_tx # 0 /\ r.power_w_rx # 0
    THEN [r EXCEPT !.power_w = (r.power_w_tx + r.power_w_rx) \div 2]
    ELSE r

\* Radio.__post_init__
RadioPostInit(r) ==
    LET r1 == IF r.radio_type = "" /\ r.type # ""
              THEN [r EXCEPT !.radio_type = r.type] ELSE r
        r2 == IF r1.band = <<>> /\ r1.bands # <<>>
              THEN [r1 EXCEPT !.band = Join(",", r1.bands)] ELSE r1
        r3 == IF r2.bands = <<>> /\ r2.band # <<>>
              THEN [r2 EXCEPT !.bands = StripNonEmpty(Split(r2.band, "/"))] ELSE r2
    IN  RadioPowerPostInit(r3)

(***************************************************************************)
(* The construction run: a Radio is made from a catalog entry, and another *)
(* from the band string of the first                                       *)
(***************************************************************************)

MaxBands == 2

BandNames == { <<"2.4GHz">>, <<"5GHz">> }

\* the separators a catalog entry writes between the bands of a band string
BandSeparators == { <<",">>, <<"/">>, <<"/", " ">> }

\* the band strings naming n bands
RECURSIVE BandStrings(_)
BandStrings(n) ==
    IF n = 0 THEN { <<>> }
    ELSE IF n = 1 THEN BandNames
    ELSE { s \o sep \o b : s \in BandStrings(n - 1), sep \in BandSeparators, b \in BandNames }

\* the band lists of at most MaxBands bands
BandLists == SeqsUpTo(BandNames, MaxBands)

\* the band and bands arguments: one of the two views, neither, or a list with a
\* string that joins it
BandArgs ==
    { <<s, <<>> >> : s \in UNION { BandStrings(n) : n \in 0..MaxBands } }
    \cup { << <<>>, l >> : l \in BandLists }
    \cup { << Join(sep, l), l >> : sep \in {",", "/"}, l \in BandLists }

\* the keyword arguments of Radio(**item, category="radio")
RadioArgs ==
    { [ id |-> "radio", name |-> "radio", band |-> b[1], bands |-> b[2],
        type |-> t[1], radio_type |-> t[2],
        power_w |-> p[3], power_w_tx |-> p[1], power_w_rx |-> p[2] ] :
      b \in BandArgs,
      t \in { <<"", "">>, <<"wifi", "">>, <<"wifi", "lora">> },
      p \in { <<200, 100, 0>>, <<0, 0, 250>> } }

InitRadio ==
    /\ pc = "entry"
    /\ request \in RadioArgs
    /\ build = NoValue
    /\ estimate = NoValue
    /\ project = NoValue
    /\ original = NoValue
    /\ imported = NoValue
    /\ geojson = NoValue
    /\ cot = NoValue
    /\ constructed = NoValue
    /\ heap = NoValue

\* Radio(**item): the dataclass fields are the arguments, then __post_init__ runs
Construct ==
    /\ pc = "entry"
    /\ constructed' = RadioPostInit(request)
    /\ pc' = "constructed"
    /\ UNCHANGED <<build, estimate, request, project, original, imported, geojson, cot, heap>>

\* Radio(band=first.band) with the other arguments as before; `original` keeps
\* the first Radio
Reconstruct ==
    /\ pc = "constructed"
    /\ original' = constructed
    /\ constructed' = RadioPostInit([request EXCEPT !.band = constructed.band, !.bands = <<>>])
    /\ pc' = "reconstructed"
    /\ UNCHANGED <<build, estimate, request, project, imported, geojson, cot, heap>>

NextRadio == Construct \/ Reconstruct

SpecRadio == InitRadio /\ [][NextRadio]_vars

(***************************************************************************)
(* Claims about Radio construction                                         *)
(***************************************************************************)

\* the band string cut at every "," and every "/", the pieces stripped, empty
\* pieces dropped
RECURSIVE SplitEach(_, _)
SplitEach(pieces, sep) ==
    IF pieces = <<>> THEN <<>>
    ELSE Split(Head(pieces), sep) \o SplitEach(Tail(pieces), sep)
SplitOnSeparators(str) == StripNonEmpty(SplitEach(Split(str, ","), "/"))

\* C20: at construction `bands` and `band` are the same bands: cutting `band` at
\* its commas and slashes gives exactly `bands`, and a Radio made from the band
\* string of a Radio has the bands of that Radio.
C20_BandViewsConsistent ==
    /\ pc \in {"constructed", "reconstructed"} =>
           SplitOnSeparators(constructed.band) = constructed.bands
    /\ pc = "reconstructed" => constructed.bands = original.bands

(***************************************************************************)
(* The power run: estimate_node on builds whose host and radio give every  *)
(* combination of idle/load (tx/rx) and nominal power                      *)
(***************************************************************************)

\* hosts as the catalog loader constructs them
PowerHosts ==
    { HostPostInit([ id |-> "host", name |-> "host", cpu_score |-> 6,
                     power_w_idle |-> i, power_w_load |-> l, power_w |-> n ]) :
      i \in {0, 500}, l \in {0, 1500}, n \in {0, 800} }

\* radios as the catalog loader constructs them
PowerRadios ==
    { RadioPowerPostInit(
          [ id |-> "radio", name |-> "radio", radio_type |-> "wifi",
            band |-> "2.4GHz", bands |-> <<"2.4GHz">>, antenna_gain_db |-> 0,
            supports_csi |-> FALSE, supports_monitor |-> FALSE,
            power_w_tx |-> t, power_w_rx |-> r, power_w |-> n ]) :
      t \in {0, 200}, r \in {0, 100}, n \in {0, 250} }

PowerEnvironments ==
    {"lab", "urban_indoor", "urban_outdoor", "rural_open", "subterranean", "desert"}

InitPower ==
    /\ pc = "built"
    /\ build \in
         [ host : PowerHosts, radio : PowerRadios,
           antenna : {[id |-> "antenna", name |-> "antenna", gain_dbi |-> 3, pattern |-> "omni"]},
           battery : {[id |-> "battery", name |-> "battery", capacity_wh |-> 10000]},
           sensors : SeqsUpTo(EstSensors, MaxEstSensors),
           environment : PowerEnvironments ]
    /\ estimate = NoValue
    /\ request = NoValue
    /\ project = NoValue
    /\ original = NoValue
    /\ imported = NoValue
    /\ geojson = NoValue
    /\ cot = NoValue
    /\ constructed = NoValue
    /\ heap = NoValue

SpecPower == InitPower /\ [][NextEst]_vars

(***************************************************************************)
(* Claims about the power estimate                                         *)
(***************************************************************************)

\* twice "avg(a, b) or nominal": the average whenever it is nonzero
AverageOrNominal2(a, b, nominal) == IF a + b # 0 THEN a + b ELSE 2 * nominal

\* the multiplier of the environment tag as the claim lists it, in tenths
ClaimedMultiplier(environment) ==
    CASE environment = "lab" -> 8
      [] environment = "urban_indoor" -> 3
      [] environment = "urban_outdoor" -> 6
      [] environment = "rural_open" -> 10
      [] environment = "subterranean" -> 2
      [] OTHER -> 10

\* the total power of the claim for the build at hand, in centiwatts
ClaimedPower ==
    RoundHalfEven(
        ( AverageOrNominal2(build.host.power_w_idle, build.host.power_w_load,
                            build.host.power_w)
          + AverageOrNominal2(build.radio.power_w_tx, build.radio.power_w_rx,
                              build.radio.power_w)
          + 2 * SumPower(build.sensors) ) * ClaimedMultiplier(build.environment),
        20)

\* the build of the example: idle 5 W / load 15 W, tx 2 W / rx 1 W, one 1 W sensor,
\* rural_open, 100 Wh
ExampleBuild ==
    /\ build.host.power_w_idle = 500 /\ build.host.power_w_load = 1500
    /\ build.radio.power_w_tx = 200 /\ build.radio.power_w_rx = 100
    /\ Len(build.sensors) = 1 /\ build.sensors[1].power_w = 100
    /\ build.environment = "rural_open"
    /\ build.battery.capacity_wh = 10000

\* C15: total power is (avg(idle, load) or host power_w) + (avg(tx, rx) or radio
\* power_w) + the sensors' power_w, times the environment multiplier, rounded to
\* 2 decimals, the average being used whenever it is nonzero; the example build
\* draws 12.5 W and runs 8.00 h.
C15_PowerFormula ==
    Estimated =>
        /\ estimate.total_power_w = ClaimedPower
        /\ ExampleBuild => estimate.total_power_w = 1250 /\ estimate.runtime_hours = 800

\* the formula of C15 holds for the builds whose host gives both or neither of
\* idle and load, and whose radio gives both or neither of tx and rx
PowerFormulaWhenBothGiven ==
    ( /\ Estimated
      /\ (build.host.power_w_idle = 0) <=> (build.host.power_w_load = 0)
      /\ (build.radio.power_w_tx = 0) <=> (build.radio.power_w_rx = 0) ) =>
        /\ estimate.total_power_w = ClaimedPower
        /\ ExampleBuild => estimate.total_power_w = 1250 /\ estimate.runtime_hours = 800

(***************************************************************************)
(* The range run: estimate_node on builds whose antenna and radio give     *)
(* every combined gain around the bucket edges                             *)
(***************************************************************************)

\* antenna gains in dBi, and the antenna_gain_db of the radio
AntennaGains == 0..15
RadioGains == {0, 2}

RangeAntennas ==
    { [id |-> "antenna", name |-> "antenna", gain_dbi |-> g, pattern |-> p] :
      g \in AntennaGains, p \in {"omni", "whip", "yagi"} }

RangeRadios ==
    { [ id |-> "radio", name |-> "radio", radio_type |-> t[1],
        band |-> t[2], bands |-> <<t[2]>>, antenna_gain_db |-> g,
        supports_csi |-> FALSE, supports_monitor |-> FALSE,
        power_w_tx |-> 200, power_w_rx |-> 100, power_w |-> 150 ] :
      t \in { <<"wifi", "2.4GHz">>, <<"WiFi", "5GHz">>, <<"lora", "915MHz">>,
              <<"analog_fpv", "5GHz">>, <<"sdr", "2.4GHz">>, <<"cellular", "LTE">>,
              <<"zigbee", "2.4GHz">> },
      g \in RadioGains }

InitRange ==
    /\ pc = "built"
    /\ build \in
         [ host : {HostRpi}, radio : RangeRadios, antenna : RangeAntennas,
           battery : {BatterySmall}, sensors : {<<>>},
           environment : PowerEnvironments ]
    /\ estimate = NoValue
    /\ request = NoValue
    /\ project = NoValue
    /\ original = NoValue
    /\ imported = NoValue
    /\ geojson = NoValue
    /\ cot = NoValue
    /\ constructed = NoValue
    /\ heap = NoValue

SpecRange == InitRange /\ [][NextEst]_vars

(***************************************************************************)
(* Claims about the range estimate                                         *)
(***************************************************************************)

\* the baseline of the radio type and primary band, in metres
ClaimedBaseline ==
    LET radio_type == BuildRadioType
        band == Lower(build.radio.bands[1])
    IN  CASE radio_type = "wifi" -> (IF band = "2.4ghz" THEN 150 ELSE 80)
          [] radio_type = "lora" -> 2000
          [] radio_type = "analog_fpv" -> 1000
          [] radio_type = "sdr" -> 500
          [] OTHER -> 300

\* antenna gain_dbi + radio antenna_gain_db, plus 2 dB when the pattern is neither
\* omni nor whip
CombinedGain ==
    build.antenna.gain_dbi + build.radio.antenna_gain_db
        + (IF build.antenna.pattern \in {"omni", "whip"} THEN 0 ELSE 2)

\* the multiplier of the bucket of the combined gain, in tenths
ClaimedBucket ==
    IF CombinedGain <= 2 THEN 10
    ELSE IF CombinedGain <= 5 THEN 12
    ELSE IF CombinedGain <= 9 THEN 15
    ELSE IF CombinedGain <= 14 THEN 25
    ELSE 35

\* baseline x bucket x environment multiplier, in hundredths of a metre
ClaimedRange100 == ClaimedBaseline * ClaimedBucket * ClaimedMultiplier(build.environment)

\* wifi 2.4GHz, a 3 dBi omni antenna, radio gain 0, urban_indoor
ExampleRangeBuild ==
    /\ build.radio.radio_type = "wifi"
    /\ build.radio.bands = <<"2.4GHz">>
    /\ build.radio.antenna_gain_db = 0
    /\ build.antenna.gain_dbi = 3
    /\ build.antenna.pattern = "omni"
    /\ build.environment = "urban_indoor"

\* C16: for a radio that is not cellular, range_km is a number, the product
\* baseline x gain-bucket multiplier x environment multiplier rounded to 3
\* decimals (within 0.0005 km of the product), the bucket chosen on the combined
\* gain with inclusive upper edges 2, 5, 9 and 14; the example build has 0.054 km.
C16_RangeFormula ==
    (Estimated /\ BuildRadioType # "cellular") =>
        /\ ~estimate.range_km.none
        /\ 100 * estimate.range_km.v - ClaimedRange100 <= 50
        /\ ClaimedRange100 - 100 * estimate.range_km.v <= 50
        /\ ExampleRangeBuild => estimate.range_km.v = 54

\* a lora build in the open whose yagi antenna of 7 dBi has a combined gain of 9,
\* the inclusive edge of the 1.5 bucket, was estimated: 2.0 x 1.5 x 1.0 = 3 km
C16_Witness ==
    /\ Estimated
    /\ BuildRadioType = "lora"
    /\ build.antenna.pattern = "yagi"
    /\ build.antenna.gain_dbi = 7
    /\ build.radio.antenna_gain_db = 0
    /\ build.environment = "rural_open"
    /\ estimate.range_km = Some(3000)

(***************************************************************************)
(* Claims about the fields the schema upgrade backfills                    *)
(***************************************************************************)

Upgraded == pc \in {"upgraded", "upgraded_twice"}

\* the nodes of the document the upgrade was given
OriginalNodes == Get(original, "nodes", <<>>)

\* C17: after upgrade_project_schema every node has both `environment` and
\* `environment_assumptions`, and the two values are equal.
C17_EnvironmentNormalized ==
    Upgraded =>
        \A n \in DOMAIN project.nodes :
            /\ "environment" \in DOMAIN project.nodes[n]
            /\ "environment_assumptions" \in DOMAIN project.nodes[n]
            /\ project.nodes[n].environment = project.nodes[n].environment_assumptions

\* C17 holds of the nodes that came with neither key or with
\* environment_assumptions alone: the upgrade fills what is missing
EnvironmentFilledWhenMissing ==
    Upgraded =>
        \A n \in DOMAIN OriginalNodes :
            "environment" \notin DOMAIN OriginalNodes[n] =>
                /\ "environment" \in DOMAIN project.nodes[n]
                /\ "environment_assumptions" \in DOMAIN project.nodes[n]
                /\ project.nodes[n].environment = project.nodes[n].environment_assumptions

\* the node has a power_profile that holds an adjusted_runtime_h value
HasAdjustedRuntimeValue(node) ==
    /\ "power_profile" \in DOMAIN node
    /\ node.power_profile # Null
    /\ "adjusted_runtime_h" \in DOMAIN node.power_profile

\* C18: after upgrade_project_schema a node that lacked estimated_runtime_min and
\* has a power_profile.adjusted_runtime_h value, 0 included, has
\* estimated_runtime_min = adjusted_runtime_h x 60; a node that had
\* estimated_runtime_min keeps its value.
C18_RuntimeMinutesBackfilled ==
    Upgraded =>
        \A n \in DOMAIN OriginalNodes :
            /\ ( /\ "estimated_runtime_min" \notin DOMAIN OriginalNodes[n]
                 /\ HasAdjustedRuntimeValue(OriginalNodes[n]) ) =>
                   /\ "estimated_runtime_min" \in DOMAIN project.nodes[n]
                   /\ project.nodes[n].estimated_runtime_min
                          = 6 * OriginalNodes[n].power_profile.adjusted_runtime_h
            /\ "estimated_runtime_min" \in DOMAIN OriginalNodes[n] =>
                   project.nodes[n].estimated_runtime_min
                       = OriginalNodes[n].estimated_runtime_min

\* C18 holds of the nodes whose adjusted_runtime_h is not 0
RuntimeMinutesBackfilledWhenNonZero ==
    Upgraded =>
        \A n \in DOMAIN OriginalNodes :
            /\ ( /\ "estimated_runtime_min" \notin DOMAIN OriginalNodes[n]
                 /\ HasAdjustedRuntimeValue(OriginalNodes[n])
                 /\ OriginalNodes[n].power_profile.adjusted_runtime_h # 0 ) =>
                   /\ "estimated_runtime_min" \in DOMAIN project.nodes[n]
                   /\ project.nodes[n].estimated_runtime_min
                          = 6 * OriginalNodes[n].power_profile.adjusted_runtime_h
            /\ "estimated_runtime_min" \in DOMAIN OriginalNodes[n] =>
                   project.nodes[n].estimated_runtime_min
                       = OriginalNodes[n].estimated_runtime_min

(***************************************************************************)
(* The capability run: estimate_node on builds whose sensors come in any   *)
(* order, with repeats                                                     *)
(***************************************************************************)

MaxCapSensors == 2

CapSensorTypes == {"Camera", "gps", "imu", "environment", "environmental", "lidar"}

CapSensors ==
    { [id |-> t, name |-> t, sensor_type |-> t, power_w |-> 50] : t \in CapSensorTypes }

CapRadios ==
    { [ id |-> "radio", name |-> "radio", radio_type |-> t,
        band |-> "2.4GHz", bands |-> <<"2.4GHz">>, antenna_gain_db |-> 0,
        supports_csi |-> csi, supports_monitor |-> mon,
        power_w_tx |-> 200, power_w_rx |-> 100, power_w |-> 150 ] :
      t \in {"wifi", "WiFi", "lora", "analog_fpv", "sdr", "cellular", "zigbee"},
      csi \in BOOLEAN, mon \in BOOLEAN }

InitCaps ==
    /\ pc = "built"
    /\ build \in
         [ host : {HostRpi, HostJetson}, radio : CapRadios, antenna : {AntennaOmni},
           battery : {BatterySmall}, sensors : SeqsUpTo(CapSensors, MaxCapSensors),
           environment : {"rural_open"} ]
    /\ estimate = NoValue
    /\ request = NoValue
    /\ project = NoValue
    /\ original = NoValue
    /\ imported = NoValue
    /\ geojson = NoValue
    /\ cot = NoValue
    /\ constructed = NoValue
    /\ heap = NoValue

SpecCaps == InitCaps /\ [][NextEst]_vars

(***************************************************************************)
(* Claims about the capability list                                        *)
(***************************************************************************)

\* the base capability of the radio type of the build
BaseCapability ==
    CASE BuildRadioType = "wifi" ->
             (IF build.radio.supports_monitor
              THEN "WiFi recon / monitor mode scanning" ELSE "WiFi client/backhaul")
      [] BuildRadioType = "lora" -> "LoRa telemetry / low-rate sensor network"
      [] BuildRadioType = "analog_fpv" -> "Analog FPV video link"
      [] BuildRadioType = "sdr" -> "SDR-based RF capture / analysis"
      [] BuildRadioType = "cellular" -> "Cellular backhaul for remote deployment"
      [] OTHER -> build.radio.radio_type \o " link"

\* the sensor-derived capabilities in their fixed order: camera, gps, imu, environment
SensorCapabilityOrder ==
    << "Video capture", "GPS time/position reference", "IMU / motion sensing",
       "Environmental sensing (temp/humidity)" >>
SensorCapabilities == {SensorCapabilityOrder[i] : i \in DOMAIN SensorCapabilityOrder}

\* the build has a sensor of a type that gives the i-th sensor capability
BuildSenses(i) ==
    \E k \in DOMAIN build.sensors :
        LET t == Lower(build.sensors[k].sensor_type)
        IN  \/ i = 1 /\ t = "camera"
            \/ i = 2 /\ t = "gps"
            \/ i = 3 /\ t = "imu"
            \/ i = 4 /\ t \in {"environment", "environmental"}

StrongHostNote == "Host strong enough for CSI pose models like WiPose"
LightweightNote == "CSI available; keep models lightweight (Jetson/RPi)"
NotesOf(e) == {e.notes[i] : i \in DOMAIN e.notes}

\* C19: the base capability of the radio type is the first capability; every
\* sensor-derived capability comes after every radio-derived one; the
\* sensor-derived capabilities are those of the sensor types of the build, once
\* each, in the order camera, gps, imu, environment, whatever the order and the
\* repeats of the sensors; the strong-host note and the lightweight-model note are
\* never both given.
C19_CapabilityOrder ==
    Estimated =>
        LET caps == estimate.capabilities
        IN  /\ caps # <<>>
            /\ caps[1] = BaseCapability
            /\ \A i, j \in DOMAIN caps :
                   (caps[i] \in SensorCapabilities /\ caps[j] \notin SensorCapabilities)
                       => j < i
            /\ SelectSeq(caps, LAMBDA c : c \in SensorCapabilities)
                   = SelectSeq(SensorCapabilityOrder,
                               LAMBDA c : \E i \in 1..4 :
                                   SensorCapabilityOrder[i] = c /\ BuildSenses(i))
            /\ ~(StrongHostNote \in NotesOf(estimate) /\ LightweightNote \in NotesOf(estimate))

\* a wifi build with CSI on a strong host whose sensors are a gps and then a
\* camera was estimated: monitor, CSI, video, GPS, and the strong-host note alone
C19_Witness ==
    /\ Estimated
    /\ BuildRadioType = "wifi"
    /\ build.radio.supports_csi
    /\ build.host.cpu_score >= 8
    /\ Len(build.sensors) = 2
    /\ Lower(build.sensors[1].sensor_type) = "gps"
    /\ Lower(build.sensors[2].sensor_type) = "camera"
    /\ Len(estimate.capabilities) = 4
    /\ estimate.capabilities[3] = "Video capture"
    /\ estimate.capabilities[4] = "GPS time/position reference"
    /\ NotesOf(estimate) = {StrongHostNote}

(***************************************************************************)
(* Claims about the accounting of project_to_builds                        *)
(***************************************************************************)

\* the sensor ids of a node that the catalog lacks, by position
MissingSensorsOf(node) ==
    {i \in DOMAIN SensorIdsOf(node) : SensorIdsOf(node)[i] \notin IdsOf(Inventory.sensors)}

\* the number of missing sensor ids over the first n nodes of the document
RECURSIVE MissingSensorCount(_)
MissingSensorCount(n) ==
    IF n = 0 THEN 0
    ELSE Cardinality(MissingSensorsOf(project.nodes[n])) + MissingSensorCount(n - 1)

SkippedNodes == {n \in DOMAIN project.nodes : ~Resolvable(project.nodes[n])}

\* every node is either returned as a build or named by one skip warning: the
\* builds are the nodes that are not skipped, in document order; the warnings are
\* one skip warning per skipped node and one sensor warning per sensor id the
\* catalog lacks, those of skipped nodes included
EveryNodeAccounted ==
    /\ Len(imported.builds) = Len(project.nodes) - Cardinality(SkippedNodes)
    /\ \A i \in 1..Len(ResolvableNodes) :
           /\ i <= Len(imported.builds)
           /\ imported.builds[i].host.id = ResolvableNodes[i].parts.host_id
           /\ [k \in DOMAIN imported.builds[i].sensors |-> imported.builds[i].sensors[k].id]
                  = SelectSeq(SensorIdsOf(ResolvableNodes[i]),
                              LAMBDA sid : sid \in IdsOf(Inventory.sensors))
    /\ \A n \in DOMAIN project.nodes :
           /\ Cardinality(SkipWarningsFor(project.nodes[n].id))
                  = IF n \in SkippedNodes THEN 1 ELSE 0
           /\ Cardinality(SensorWarningsFor(project.nodes[n].id))
                  = Cardinality(MissingSensorsOf(project.nodes[n]))
    /\ Len(imported.warnings)
           = Cardinality(SkippedNodes) + MissingSensorCount(Len(project.nodes))

\* C21: project_to_builds accounts for every node exactly once: the builds are
\* the nodes that are not skipped, in document order; the warnings are exactly
\* one skip warning per skipped node plus one sensor warning per unresolvable
\* sensor id, also for a node that is then skipped.
C21_EveryNodeAccounted ==
    pc = "imported" => EveryNodeAccounted

\* the accounting of C21 holds of every document none of whose nodes has
\* `parts: null`
AccountingWithoutNullParts ==
    ( /\ pc = "imported"
      /\ \A n \in DOMAIN project.nodes :
             Get(project.nodes[n], "parts", EmptyDict) # Null )
        => (~imported.raised /\ EveryNodeAccounted)

\* a node that cannot be resolved and lists an unknown sensor id was skipped, with its
\* sensor warning before its skip warning, and the node after it was returned
SkippedNodeStillWarnsSensors ==
    /\ pc = "imported"
    /\ ~imported.raised
    /\ Len(project.nodes) = 2
    /\ ~Resolvable(project.nodes[1])
    /\ MissingSensorsOf(project.nodes[1]) # {}
    /\ Resolvable(project.nodes[2])
    /\ Len(imported.builds) = 1
    /\ imported.warnings[1].kind = "missing_sensor"
    /\ imported.warnings[2] = [kind |-> "skip", node |-> "node-a"]

(***************************************************************************)
(* The documents as Python objects.  A dict or a list is an object with an *)
(* address; what a key or an index holds is a cell: a reference to an      *)
(* object, or a value that cannot change (a string, a number, None).  Two  *)
(* documents share state exactly when they reach the same address.         *)
(***************************************************************************)
Ref(a) == [ref |-> a]
Val(v) == [val |-> v]
IsRef(c) == "ref" \in DOMAIN c
IsDict(o) == "dict" \in DOMAIN o

\* An address is a name: the path of keys that led to the object when it was
\* made.  `site` names the expression that makes the object, so no two
\* objects get one address.
Alloc(h, site, o) == [heap |-> (site :> o) @@ h, cell |-> Ref(site)]
NewDict(h, site) == Alloc(h, site, [dict |-> EmptyDict])
NewList(h, site) == Alloc(h, site, [list |-> <<>>])

\* what json.load builds for the value under a key: a dict, a list of dicts
\* (nodes), a list of values, or a value
KindOf(k) ==
    IF k \in { "mission", "environment", "environment_assumptions",
               "power_profile", "parts", "host_type" } THEN "dict"
    ELSE IF k = "nodes" THEN "nodes"
    ELSE IF k \in { "tags", "host_tags", "constraints", "platforms",
                    "mesh_links", "kits" } THEN "list"
    ELSE "value"

\* the kind of what a dict holds under key k, or a list at index k
ChildKind(kind, k) ==
    IF kind = "dict" THEN KindOf(k) ELSE IF kind = "nodes" THEN "dict" ELSE "value"

\* a key or an index as a step of an address
StepOf(kind, k) == IF kind = "dict" THEN k ELSE ToString(k)

\* a dict or a list, and not None
IsContainer(v, kind) == kind # "value" /\ ~(kind = "dict" /\ v = Null)

\* the paths from a parsed value to the dicts and lists in it
RECURSIVE PathsOf(_, _)
PathsOf(v, kind) ==
    IF ~IsContainer(v, kind) THEN {}
    ELSE {<<>>} \cup
         UNION { { <<StepOf(kind, k)>> \o p : p \in PathsOf(v[k], ChildKind(kind, k)) } :
                 k \in DOMAIN v }

\* the value a path leads to, with its kind
RECURSIVE ValueAt(_, _, _)
ValueAt(v, kind, path) ==
    IF Len(path) = 0 THEN [value |-> v, kind |-> kind]
    ELSE LET k == IF kind = "dict" THEN Head(path)
                  ELSE CHOOSE i \in DOMAIN v : ToString(i) = Head(path)
         IN  ValueAt(v[k], ChildKind(kind, k), Tail(path))

\* the cell for a value stored under address a: a reference when the value
\* is a dict or a list
CellOf(a, v, kind) == IF IsContainer(v, kind) THEN Ref(a) ELSE Val(v)

\* the object json.load makes for the dict or list v, at address a
ObjectOf(a, v, kind) ==
    IF kind = "dict"
    THEN [dict |-> [k \in DOMAIN v |-> CellOf(a \o <<k>>, v[k], KindOf(k))]]
    ELSE [list |-> [i \in DOMAIN v |->
                        CellOf(a \o <<ToString(i)>>, v[i], ChildKind(kind, i))]]

\* json.load: every dict and list of the document is an object of its own
Store(root, v) ==
    [ heap |-> [ a \in {root \o p : p \in PathsOf(v, "dict")} |->
                   LET at == ValueAt(v, "dict", SubSeq(a, Len(root) + 1, Len(a)))
                   IN  ObjectOf(a, at.value, at.kind) ],
      cell |-> Ref(root) ]

\* the contents a reference shows: what == compares and json.dumps writes
RECURSIVE Load(_, _)
Load(h, c) ==
    IF ~IsRef(c) THEN c.val
    ELSE LET o == h[c.ref]
         IN  IF IsDict(o)
             THEN [k \in DOMAIN o.dict |-> Load(h, o.dict[k])]
             ELSE [i \in DOMAIN o.list |-> Load(h, o.list[i])]

\* the addresses a reference reaches
RECURSIVE Reach(_, _)
Reach(h, c) ==
    IF ~IsRef(c) THEN {}
    ELSE LET o == h[c.ref]
         IN  {c.ref} \cup
             ( IF IsDict(o)
               THEN UNION {Reach(h, o.dict[k]) : k \in DOMAIN o.dict}
               ELSE UNION {Reach(h, o.list[i]) : i \in DOMAIN o.list} )

\* the cells of an object, each changed by Move
MapCells(o, Move(_)) ==
    IF IsDict(o) THEN [dict |-> [k \in DOMAIN o.dict |-> Move(o.dict[k])]]
    ELSE [list |-> [i \in DOMAIN o.list |-> Move(o.list[i])]]

\* copy.copy: a new object holding the same cells
ShallowCopy(h, c, copy) ==
    IF ~IsRef(c) THEN [heap |-> h, cell |-> c]
    ELSE Alloc(h, <<copy>> \o c.ref, h[c.ref])

\* copy.deepcopy: every object c reaches is made anew, at its address
\* prefixed with the name of the copy, and the references follow
DeepCopy(h, c, copy) ==
    LET Move(x) == IF IsRef(x) THEN Ref(<<copy>> \o x.ref) ELSE x
    IN  [ heap |-> [a \in {<<copy>> \o b : b \in Reach(h, c)} |->
                        MapCells(h[Tail(a)], Move)] @@ h,
          cell |-> Move(c) ]

\* k in d, d.get(k, default), d[k] = c and d.setdefault(k, c) on the dict at a
HeapHas(h, a, k) == k \in DOMAIN h[a].dict
HeapGet(h, a, k, default) == IF HeapHas(h, a, k) THEN h[a].dict[k] ELSE default
HeapSet(h, a, k, c) == [h EXCEPT ![a] = [dict |-> Put(@.dict, k, c)]]
HeapSetDefault(h, a, k, c) == IF HeapHas(h, a, k) THEN h ELSE HeapSet(h, a, k, c)

\* the truth value of a cell that holds a dict or None
TruthyObject(h, c) == IsRef(c) /\ DOMAIN h[c.ref].dict # {}

\* the keys upgrade_project_schema defaults from legacy, with the literal each
\* call builds: {} or []
TopLevelDefaults ==
    << <<"mission", "dict">>, <<"environment", "dict">>, <<"constraints", "list">>,
       <<"platforms", "list">>, <<"nodes", "list">>, <<"mesh_links", "list">>,
       <<"kits", "list">> >>

\* upgraded.setdefault(k, legacy.get(k, {})): the literal is built, then the
\* value of legacy or the literal is stored when upgraded lacks the key
RECURSIVE HeapBackfillTopLevel(_, _, _, _)
HeapBackfillTopLevel(h, up, leg, n) ==
    IF n = 0 THEN h
    ELSE LET before == HeapBackfillTopLevel(h, up, leg, n - 1)
             k == TopLevelDefaults[n][1]
             site == <<"literal">> \o up \o <<k>>
             literal == IF TopLevelDefaults[n][2] = "dict" THEN NewDict(before, site)
                        ELSE NewList(before, site)
         IN  HeapSetDefault(literal.heap, up, k, HeapGet(literal.heap, leg, k, literal.cell))

\* node.setdefault("origin_tool", upgraded.get("origin_tool", "node"))
HeapBackfillOriginTool(h, up, a) ==
    HeapSetDefault(h, a, "origin_tool", HeapGet(h, up, "origin_tool", Val("node")))

\* environment = node.get("environment") or node.get("environment_assumptions") or {}
\* and the two setdefault calls, which store the same object
HeapNormalizeEnvironment(h, a) ==
    LET env == HeapGet(h, a, "environment", Val(Null))
        assumed == HeapGet(h, a, "environment_assumptions", Val(Null))
        environment ==
            IF TruthyObject(h, env) THEN [heap |-> h, cell |-> env]
            ELSE IF TruthyObject(h, assumed) THEN [heap |-> h, cell |-> assumed]
            ELSE NewDict(h, <<"literal">> \o a \o <<"environment">>)
    IN  HeapSetDefault(
            HeapSetDefault(environment.heap, a, "environment", environment.cell),
            a, "environment_assumptions", environment.cell)

\* node["estimated_runtime_min"] = round(adjusted_runtime_h * 60, 1) when the
\* key is absent and the profile has a non-zero runtime
HeapBackfillRuntime(h, a) ==
    LET pp == HeapGet(h, a, "power_profile", Val(Null))
        hours == IF TruthyObject(h, pp) /\ HeapHas(h, pp.ref, "adjusted_runtime_h")
                 THEN h[pp.ref].dict.adjusted_runtime_h.val
                 ELSE 0
    IN  IF ~HeapHas(h, a, "estimated_runtime_min") /\ hours # 0
        THEN HeapSet(h, a, "estimated_runtime_min", Val(RuntimeMinutes(hours)))
        ELSE h

\* node["host_type"] = {"id": ..., "name": ..., "tags": parts.get("host_tags", [])}
HeapBackfillHostType(h, a) ==
    LET parts == HeapGet(h, a, "parts", Val(Null))
        hasHost == /\ TruthyObject(h, parts)
                   /\ HeapHas(h, parts.ref, "host_id")
                   /\ h[parts.ref].dict.host_id.val # ""
    IN  IF HeapHas(h, a, "host_type") \/ ~hasHost THEN h
        ELSE LET host_id == h[parts.ref].dict.host_id
                 literal == NewList(h, <<"literal">> \o a \o <<"host_tags">>)
                 stub == Alloc(literal.heap, <<"literal">> \o a \o <<"host_type">>,
                               [dict |-> [ id |-> host_id,
                                           name |-> HeapGet(h, parts.ref, "host_name", host_id),
                                           tags |-> HeapGet(h, parts.ref, "host_tags",
                                                            literal.cell) ]])
             IN  HeapSet(stub.heap, a, "host_type", stub.cell)

\* the body of the loop, on the node dict at address a
HeapUpgradeNode(h, up, a) ==
    HeapBackfillHostType(
        HeapBackfillRuntime(
            HeapNormalizeEnvironment(HeapBackfillOriginTool(h, up, a), a), a), a)

\* for node in upgraded.get("nodes", []): the first n nodes of the list
RECURSIVE HeapUpgradeNodes(_, _, _, _)
HeapUpgradeNodes(h, up, nodes, n) ==
    IF n = 0 THEN h
    ELSE HeapUpgradeNode(HeapUpgradeNodes(h, up, nodes, n - 1), up, nodes[n].ref)

\* merged = copy.deepcopy(original); merged.update(updated): merged holds the
\* cells of updated
HeapMergeUnknownFields(h, orig, updated) ==
    LET merged == DeepCopy(h, orig, "merged")
    IN  [ heap |-> [merged.heap EXCEPT ![merged.cell.ref] =
                        [dict |-> h[updated.ref].dict @@ @.dict]],
          cell |-> merged.cell ]

\* upgrade_project_schema on the objects
HeapUpgradeProjectSchema(h, doc) ==
    LET legacy == DeepCopy(h, doc, "legacy")
        upgraded == DeepCopy(legacy.heap, doc, "upgraded")
        up == upgraded.cell.ref
        h1 == HeapSet(upgraded.heap, up, "schemaVersion", Val(SCHEMA_VERSION))
        h2 == HeapBackfillTopLevel(h1, up, legacy.cell.ref, Len(TopLevelDefaults))
        h3 == HeapSetDefault(h2, up, "origin_tool",
                             HeapGet(h2, legacy.cell.ref, "origin_tool", Val("node")))
        nodes == h3[h3[up].dict.nodes.ref].list
        h4 == HeapUpgradeNodes(h3, up, nodes, Len(nodes))
    IN  HeapMergeUnknownFields(h4, doc, upgraded.cell)

(***************************************************************************)
(* The run on objects: a document is loaded, upgraded, and the caller then *)
(* changes one object of the document it got back                          *)
(***************************************************************************)
MaxHeapNodes == 1

HeapNodeShapes ==
    { o @@ e @@ r @@ h :
        o \in { EmptyDict, [origin_tool |-> "planner", x_vendor |-> "kept"] },
        e \in { EmptyDict,
                [environment_assumptions |-> [propagation |-> "urban_indoor"]],
                [ environment |-> Null,
                  environment_assumptions |-> [propagation |-> "urban_indoor"] ] },
        r \in { EmptyDict, [power_profile |-> [adjusted_runtime_h |-> 631]] },
        h \in { EmptyDict,
                [parts |-> [host_id |-> "rpi4"]],
                [ parts |-> [host_id |-> "rpi4"],
                  host_type |-> [id |-> "custom", name |-> "Custom", tags |-> <<>>] ] } }

HeapDocs ==
    { [schemaVersion |-> "1.0.0"] @@ t @@ n :
        t \in { EmptyDict,
                [ schema |-> LEGACY_SCHEMA_TAG, origin_tool |-> "planner",
                  mission |-> [name |-> "demo"] ] },
        n \in {EmptyDict} \cup
              { [ nodes |-> [i \in DOMAIN ns |-> Put(ns[i], "id", NodeIds[i])] ] :
                ns \in SeqsUpTo(HeapNodeShapes, MaxHeapNodes) } }

\* d = json.load(...): `request` keeps what d held, `original` is d
InitHeap ==
    /\ pc = "loaded"
    /\ request \in HeapDocs
    /\ LET d == Store(<<"d">>, request)
       IN  heap = d.heap /\ original = d.cell
    /\ project = NoValue
    /\ build = NoValue
    /\ estimate = NoValue
    /\ imported = NoValue
    /\ geojson = NoValue
    /\ cot = NoValue
    /\ constructed = NoValue

\* result = upgrade_project_schema(d)
UpgradeOnHeap ==
    /\ pc = "loaded"
    /\ LET result == HeapUpgradeProjectSchema(heap, original)
       IN  heap' = result.heap /\ project' = result.cell
    /\ pc' = "returned"
    /\ UNCHANGED <<build, estimate, request, original, imported, geojson, cot, constructed>>

\* the caller changes the returned document: a key is set in one of its
\* dicts, or an element is appended to one of its lists
ChangeReturned ==
    /\ pc = "returned"
    /\ \E a \in Reach(heap, project) :
          heap' = [heap EXCEPT ![a] =
                       IF IsDict(@) THEN [dict |-> Put(@.dict, "changed", Val(Null))]
                       ELSE [list |-> Append(@.list, Val(Null))]]
    /\ pc' = "changed"
    /\ UNCHANGED <<build, estimate, request, project, original, imported, geojson, cot, constructed>>

NextHeap == UpgradeOnHeap \/ ChangeReturned

SpecHeap == InitHeap /\ [][NextHeap]_vars

\* C22: upgrade_project_schema does not modify its input: after the call, and
\* after any later change to the returned document, the document d shows what
\* it showed before the call, nested node dictionaries included.
C22_InputNotModified ==
    pc \in {"returned", "changed"} => Load(heap, original) = request

\* the returned document and d have no object in common
ReturnedSharesNothing ==
    pc \in {"returned", "changed"} =>
        Reach(heap, project) \cap Reach(heap, original) = {}

\* the objects hold what the upgrade on values computes
HeapUpgradeAgrees ==
    pc = "returned" => Load(heap, project) = UpgradeProjectSchema(request)

\* a document whose node the upgrade gave a host_type was upgraded, and the
\* caller then changed that node of the returned document
C22_Witness ==
    /\ pc = "changed"
    /\ "nodes" \in DOMAIN request
    /\ Len(request.nodes) > 0
    /\ "host_type" \notin DOMAIN request.nodes[1]
    /\ "host_type" \in DOMAIN Load(heap, project).nodes[1]
    /\ "changed" \in DOMAIN Load(heap, project).nodes[1]

(***************************************************************************)
(* Claims about the CSI notes                                              *)
(***************************************************************************)

CsiCapability == "Potential WiFi CSI / channel analysis (driver support required)"
CapabilitiesOf(e) == {e.capabilities[i] : i \in DOMAIN e.capabilities}
HasCsiNote(e) == StrongHostNote \in NotesOf(e) \/ LightweightNote \in NotesOf(e)

\* C23: a CSI note (strong-host or lightweight-model) is given only to builds
\* whose capability list contains the WiFi CSI capability: a CSI note is
\* present if and only if the radio is wifi and supports CSI.
C23_CsiNoteIffWifiCsi ==
    Estimated =>
        /\ HasCsiNote(estimate) => CsiCapability \in CapabilitiesOf(estimate)
        /\ HasCsiNote(estimate) <=> (BuildRadioType = "wifi" /\ build.radio.supports_csi)

\* what the code does: the note follows the CSI flag of the radio alone, the
\* capability follows the flag on wifi radios only
CsiNoteFollowsFlag ==
    Estimated =>
        /\ HasCsiNote(estimate) <=> build.radio.supports_csi
        /\ CsiCapability \in CapabilitiesOf(estimate)
               <=> (BuildRadioType = "wifi" /\ build.radio.supports_csi)

\* a radio that is not wifi and has the CSI flag was estimated
NonWifiCsiEstimated ==
    Estimated /\ BuildRadioType = "lora" /\ build.radio.supports_csi

====
